---- MODULE Spec2Model ----
(***************************************************************************)
(* Ruistic: scanner (scanner.rs), recursive-descent parser (parser.rs),    *)
(* environment chain (environment.rs) and tree-walking interpreter         *)
(* (interpreter.rs), driven as main.rs::run drives them.                   *)
(*                                                                         *)
(* Characters are one-character strings, source text and lexemes are       *)
(* sequences of characters; only ASCII text is modelled, so byte offsets   *)
(* (str::len, slicing) and char offsets (chars().nth) coincide.            *)
(* Number payloads are exact rationals num/den (den > 0, lowest terms);    *)
(* they agree with f64 on the integer arithmetic the checked programs do.  *)
(***************************************************************************)
EXTENDS Integers, Sequences, FiniteSets, TLC

VARIABLES
    src,          \* Scanner.src: the source text
    tokens,       \* Scanner.tokens, then Parser.tokens
    start,        \* Scanner.start
    current,      \* Scanner.current
    line,         \* Scanner.line
    pos,          \* Parser.pos
    statements,   \* the Vec<Stmt> built by Parser::parse
    envs,         \* the live Environment objects, oldest first; envs[1] is the global one
    environment,  \* Interpreter.environment: index into envs of the current environment
    stack,        \* the interpreter's call stack: active interpret/execute_block/while frames
    output,       \* lines written to stdout by println!
    diag,         \* lines written to stderr by eprintln!
    trace,        \* history: the statement-level steps the interpreter has taken, in order
    prog,         \* which input was chosen: the program family and its parameters
    pc            \* where the pipeline of main.rs::run is

vars == <<src, tokens, start, current, line, pos, statements, envs, environment,
          stack, output, diag, trace, prog, pc>>

scanVars == <<src, tokens, start, current, line, prog>>
parseVars == <<pos, statements>>
runVars == <<envs, environment, stack, output, trace>>

----------------------------------------------------------------------------
(* Bounds of the model *)

\* longest source text enumerated exhaustively for the scanner
MaxSrcLen == 4
\* how far past the end of the text Scanner.current is tracked before the model saturates it
MaxOverrun == 2
\* longest token sequence (without its EOF) enumerated exhaustively for the parser
MaxTokLen == 4
\* largest N of the counting for-loop programs
MaxN == 3
\* lines of stderr that are kept; later lines are dropped
MaxDiag == 4
\* statement-level steps the interpreter is followed for
MaxSteps == 40
\* most statements in a program built from a pool of statements
MaxStmts == 3
\* lines typed at the prompt in one session
MaxLines == 3

----------------------------------------------------------------------------
(* Characters *)

NUL == "\\0"
NL == "\n"
QUOTE == "\""
Digit == {"0", "1", "2", "3", "4", "5", "6", "7", "8", "9"}
Alpha == {"a", "b", "c", "d", "e", "f", "g", "h", "i", "j", "k", "l", "m", "n", "o", "p", "q", "r", "s", "t", "u", "v", "w", "x", "y", "z",
          "A", "B", "C", "D", "E", "F", "G", "H", "I", "J", "K", "L", "M", "N", "O", "P", "Q", "R", "S", "T", "U", "V", "W", "X", "Y", "Z"}

\* char::is_numeric, char::is_alphanumeric on ASCII
is_numeric(c) == c \in Digit
is_alphanumeric(c) == c \in Alpha \/ c \in Digit

DigitValue(c) ==
    CASE c = "0" -> 0 [] c = "1" -> 1 [] c = "2" -> 2 [] c = "3" -> 3 [] c = "4" -> 4
      [] c = "5" -> 5 [] c = "6" -> 6 [] c = "7" -> 7 [] c = "8" -> 8 [] c = "9" -> 9

----------------------------------------------------------------------------
(* token.rs: Value and Token *)

RECURSIVE Gcd(_, _)
Gcd(a, b) == IF b = 0 THEN a ELSE Gcd(b, a % b)

Abs(n) == IF n < 0 THEN -n ELSE n

\* Value::Number(n/d) in lowest terms with a positive denominator
Ratio(n, d) ==
    LET g == Gcd(Abs(n), Abs(d))
        s == IF d < 0 THEN -1 ELSE 1
    IN  [tag |-> "Number", num |-> s * (n \div g), den |-> s * (d \div g)]

Number(n) == [tag |-> "Number", num |-> n, den |-> 1]
String(s) == [tag |-> "String", s |-> s]
Boolean(b) == [tag |-> "Boolean", b |-> b]
Nil == [tag |-> "Nil"]
\* Option<Value>::None
None == [tag |-> "None"]

\* an equality of the variants alone (std::mem::discriminant): the shallow
\* comparison == is checked against
ValueEq_sameVariant(a, b) == a.tag = b.tag

\* #[derive(PartialEq)] on Value: same variant and equal payload
ValueEq(a, b) ==
    /\ a.tag = b.tag
    /\ CASE a.tag = "Number" -> a.num = b.num /\ a.den = b.den
         [] a.tag = "String" -> a.s = b.s
         [] a.tag = "Boolean" -> a.b = b.b
         [] OTHER -> TRUE

\* an error text, with the variable name it is about where it has one
Msg(text, name) == [text |-> text, name |-> name]

\* eprintln!: a line on stderr
Emit(dg, kind, m) ==
    IF Len(dg) < MaxDiag THEN Append(dg, [kind |-> kind, text |-> m.text, name |-> m.name]) ELSE dg

Token(t, lexeme, literal, ln) == [t |-> t, lexeme |-> lexeme, literal |-> literal, line |-> ln]

----------------------------------------------------------------------------
(* scanner.rs *)

\* KEYWORDS.get(text).cloned().unwrap_or(TokenType::IDENTIFIER)
KEYWORDS(text) ==
    CASE
          text = <<"a", "n", "d">> -> "AND"
       [] text = <<"c", "l", "a", "s", "s">> -> "CLASS"
       [] text = <<"e", "l", "s", "e">> -> "ELSE"
       [] text = <<"f", "a", "l", "s", "e">> -> "FALSE"
       [] text = <<"f", "u", "n">> -> "FUN"
       [] text = <<"f", "o", "r">> -> "FOR"
       [] text = <<"i", "f">> -> "IF"
       [] text = <<"n", "i", "l">> -> "NIL"
       [] text = <<"o", "r">> -> "OR"
       [] text = <<"p", "r", "i", "n", "t">> -> "PRINT"
       [] text = <<"r", "e", "t", "u", "r", "n">> -> "RETURN"
       [] text = <<"s", "u", "p", "e", "r">> -> "SUPER"
       [] text = <<"t", "h", "i", "s">> -> "THIS"
       [] text = <<"t", "r", "u", "e">> -> "TRUE"
       [] text = <<"v", "a", "r">> -> "VAR"
       [] text = <<"w", "h", "i", "l", "e">> -> "WHILE"
       [] OTHER -> "IDENTIFIER"

\* self.src.chars().nth(i), with None as NUL
CharAt(i) == IF i < Len(src) THEN src[i + 1] ELSE NUL

\* Scanner::is_at_end at offset cur
ScanAtEnd(cur) == cur >= Len(src)

\* Scanner::peek at offset cur
ScanPeek(cur) == IF ScanAtEnd(cur) THEN NUL ELSE CharAt(cur)

\* Scanner::peek_next at offset cur
peek_next(cur) == IF cur + 1 >= Len(src) THEN NUL ELSE CharAt(cur + 1)

\* Scanner::match_char at offset cur: whether it consumes `expected`
match_char(cur, expected) == ~ScanAtEnd(cur) /\ CharAt(cur) = expected

\* &self.src[from..to]
Slice(from, to) == SubSeq(src, from + 1, to)

\* Scanner::advance: the offset after consuming one character.  current is a
\* usize that advance() increments without an end check; past MaxOverrun
\* characters beyond the end of the text the model keeps it where it is.
ScanAdvance(cur) == IF cur >= Len(src) + MaxOverrun THEN cur ELSE cur + 1

\* the while loop of Scanner::identifier: the offset where the identifier ends
RECURSIVE IdentifierEnd(_)
IdentifierEnd(cur) ==
    IF is_alphanumeric(ScanPeek(cur)) \/ ScanPeek(cur) = "_"
    THEN IdentifierEnd(cur + 1) ELSE cur

\* the loops `while self.peek().is_numeric() { self.advance(); }` of Scanner::number
RECURSIVE DigitsEnd(_)
DigitsEnd(cur) == IF is_numeric(ScanPeek(cur)) THEN DigitsEnd(cur + 1) ELSE cur

\* Scanner::number: the offset where the number literal ends
NumberEnd(cur) ==
    LET e == DigitsEnd(cur)
    IN  IF ScanPeek(e) = "." /\ is_numeric(peek_next(e)) THEN DigitsEnd(e + 1) ELSE e

RECURSIVE Pow10(_)
Pow10(n) == IF n = 0 THEN 1 ELSE 10 * Pow10(n - 1)

\* the digits of a lexeme read as one decimal integer, skipping the "."
RECURSIVE DigitsValue(_, _)
DigitsValue(lexeme, acc) ==
    IF lexeme = <<>> THEN acc
    ELSE IF Head(lexeme) = "." THEN DigitsValue(Tail(lexeme), acc)
    ELSE DigitsValue(Tail(lexeme), 10 * acc + DigitValue(Head(lexeme)))

\* lexeme.parse::<f64>() of a lexeme digits [ "." digits ]
ParseF64(lexeme) ==
    LET dots == {i \in 1..Len(lexeme) : lexeme[i] = "."}
        fracLen == IF dots = {} THEN 0 ELSE Len(lexeme) - (CHOOSE i \in dots : TRUE)
    IN  Ratio(DigitsValue(lexeme, 0), Pow10(fracLen))

\* the nested block comment loop of Scanner::scan_token, entered after "/*"
\* with depth 1: the offset and line it ends with, and whether it ran into the
\* end of the text
RECURSIVE BlockComment(_, _, _)
BlockComment(cur, ln, depth) ==
    IF depth > 0
    THEN IF ScanAtEnd(cur)
         THEN [current |-> cur, line |-> ln, unterminated |-> TRUE]
         ELSE IF ScanPeek(cur) = NL
         THEN BlockComment(cur + 1, ln + 1, depth)
         ELSE IF ScanPeek(cur) = "*" /\ peek_next(cur) = "/"
         THEN BlockComment(cur + 3, ln, depth - 1)
         ELSE IF ScanPeek(cur) = "/" /\ peek_next(cur) = "*"
         THEN BlockComment(cur + 3, ln, depth + 1)
         ELSE BlockComment(cur + 1, ln, depth)
    ELSE [current |-> cur, line |-> ln, unterminated |-> FALSE]

\* token kinds of the single-character arms of Scanner::scan_token
SingleCharToken(c) ==
    CASE c = "(" -> "LEFT_PAREN" [] c = ")" -> "RIGHT_PAREN"
      [] c = "{" -> "LEFT_BRACE" [] c = "}" -> "RIGHT_BRACE"
      [] c = "," -> "COMMA" [] c = "." -> "DOT"
      [] c = "-" -> "MINUS" [] c = "+" -> "PLUS"
      [] c = ";" -> "SEMICOLON" [] c = "*" -> "STAR"

\* token kinds of the arms that look one character ahead for "="
OneOrTwoCharToken(c, two) ==
    CASE c = "!" -> IF two THEN "BANG_EQUAL" ELSE "BANG"
      [] c = "=" -> IF two THEN "EQUAL_EQUAL" ELSE "EQUAL"
      [] c = "<" -> IF two THEN "LESS_EQUAL" ELSE "LESS"
      [] c = ">" -> IF two THEN "GREATER_EQUAL" ELSE "GREATER"

\* Scanner::add_token at offsets st..cur
add_token(toks, t, v, st, cur, ln) == Append(toks, Token(t, Slice(st, cur), v, ln))

\* Scanner::scan_token called at offset st (= self.start = self.current): the
\* scanner's fields and position after the call, or at the loop the call has
\* entered (the line comment loop, the loop of Scanner::string)
scan_token(st) ==
    LET c == CharAt(st)
        cur == st + 1
        same == [current |-> cur, line |-> line, tokens |-> tokens, diag |-> diag, pc |-> "scan"]
    IN  CASE c \in {"(", ")", "{", "}", ",", ".", "-", "+", ";", "*"} ->
                [same EXCEPT !.tokens = add_token(tokens, SingleCharToken(c), None, st, cur, line)]
          [] c = "/" ->
                IF match_char(cur, "/")
                THEN [same EXCEPT !.current = cur + 1, !.pc = "line_comment"]
                ELSE IF match_char(cur, "*")
                THEN LET r == BlockComment(cur + 1, line, 1)
                     IN  [same EXCEPT !.current = r.current, !.line = r.line,
                                      !.diag = IF r.unterminated
                                               THEN Emit(diag, "scan", Msg("Unterminated block comment", <<>>))
                                               ELSE diag]
                ELSE [same EXCEPT !.tokens = add_token(tokens, "SLASH", None, st, cur, line)]
          [] c \in {"!", "=", "<", ">"} ->
                LET two == match_char(cur, "=")
                    e == IF two THEN cur + 1 ELSE cur
                IN  [same EXCEPT !.current = e,
                                 !.tokens = add_token(tokens, OneOrTwoCharToken(c, two), None, st, e, line)]
          [] c \in {" ", "\r", "\t"} -> same
          [] c = NL -> [same EXCEPT !.line = line + 1]
          [] c = QUOTE -> [same EXCEPT !.pc = "string"]
          [] c \in Alpha \/ c = "_" ->
                LET e == IdentifierEnd(cur)
                IN  [same EXCEPT !.current = e,
                                 !.tokens = add_token(tokens, KEYWORDS(Slice(st, e)), None, st, e, line)]
          [] c \in Digit ->
                LET e == NumberEnd(cur)
                IN  [same EXCEPT !.current = e,
                                 !.tokens = add_token(tokens, "NUMBER", ParseF64(Slice(st, e)), st, e, line)]
          [] OTHER -> [same EXCEPT !.diag = Emit(diag, "scan", Msg("Unrecognized character", <<c>>))]

\* scan_tokens: one turn of `while !self.is_at_end()`, up to the return of
\* scan_token or to the loop inside it that the call has entered
ScanToken ==
    /\ pc = "scan"
    /\ ~ScanAtEnd(current)
    /\ LET r == scan_token(current)
       IN  /\ start' = current
           /\ current' = r.current
           /\ line' = r.line
           /\ tokens' = r.tokens
           /\ diag' = r.diag
           /\ pc' = r.pc
    /\ UNCHANGED <<src, prog, parseVars, runVars>>

\* scan_token, "//" arm: one turn of
\*   while !self.match_char('\n') { if self.match_char('\n') { self.line += 1; break; } }
LineCommentLoop ==
    /\ pc = "line_comment"
    /\ IF match_char(current, NL)
       THEN /\ current' = current + 1
            /\ pc' = "scan"
            /\ line' = line
       ELSE IF match_char(current, NL)
       THEN /\ current' = current + 1
            /\ line' = line + 1
            /\ pc' = "scan"
       ELSE UNCHANGED <<current, line, pc>>
    /\ UNCHANGED <<src, prog, tokens, start, diag, parseVars, runVars>>

\* Scanner::string: one turn of `while self.peek() != '"'`, or what follows the loop
StringLoop ==
    /\ pc = "string"
    /\ IF ScanPeek(current) # QUOTE
       THEN /\ line' = IF ScanPeek(current) = NL THEN line + 1 ELSE line
            /\ current' = ScanAdvance(current)
            /\ UNCHANGED <<tokens, diag, pc>>
       ELSE IF ScanAtEnd(current)
       THEN /\ diag' = Emit(diag, "scan", Msg("Unterminated string.", <<>>))
            /\ pc' = "scan"
            /\ UNCHANGED <<tokens, current, line>>
       ELSE /\ current' = current + 1
            /\ tokens' = add_token(tokens, "STRING",
                                   String(Slice(start + 1, current)), start, current + 1, line)
            /\ pc' = "scan"
            /\ UNCHANGED <<diag, line>>
    /\ UNCHANGED <<src, prog, start, parseVars, runVars>>

\* scan_tokens: the loop has ended; push EOF and hand the tokens to Parser::new
ScanReturn ==
    /\ pc = "scan"
    /\ ScanAtEnd(current)
    /\ tokens' = Append(tokens, Token("EOF", <<>>, None, line))
    /\ pc' = "parse"
    /\ pos' = 0
    /\ UNCHANGED <<src, prog, start, current, line, statements, diag, runVars>>

----------------------------------------------------------------------------
(* expression.rs, statement.rs: the AST *)

Literal(v) == [e |-> "Literal", value |-> v]
Unary(op, r) == [e |-> "Unary", operator |-> op, right |-> r]
\* a constructor that regroups a chain to the right, a op1 (b op2 c): the
\* grouping the left-associative loops are checked against
Binary_rightNested(l, op, r) ==
    IF l.e = "Binary"
    THEN [e |-> "Binary", left |-> l.left, operator |-> l.operator,
          right |-> [e |-> "Binary", left |-> l.right, operator |-> op, right |-> r]]
    ELSE [e |-> "Binary", left |-> l, operator |-> op, right |-> r]
Binary(l, op, r) == [e |-> "Binary", left |-> l, operator |-> op, right |-> r]
Grouping(x) == [e |-> "Grouping", expr |-> x]
Variable(name) == [e |-> "Variable", name |-> name]
Assign(name, v) == [e |-> "Assign", name |-> name, value |-> v]
\* Option::None where an Expr or a Stmt is optional
Absent == [e |-> "None", s |-> "None"]

ExprStmt(x) == [s |-> "Expr", expr |-> x]
PrintStmt(x) == [s |-> "Print", expr |-> x]
VarStmt(name, init) == [s |-> "Var", name |-> name, init |-> init]
BlockStmt(stmts) == [s |-> "Block", stmts |-> stmts]
IfStmt(c, t, f) == [s |-> "If", condition |-> c, then_branch |-> t, else_branch |-> f]
WhileStmt(c, b) == [s |-> "While", condition |-> c, body |-> b]

----------------------------------------------------------------------------
(* parser.rs.  A parsing method is an operator of the cursor p it is called  *)
(* at; its result carries the cursor it leaves behind: Ok with the node, Err *)
(* with the message, Hang when the call never returns.                       *)

Ok(p, v) == [k |-> "Ok", pos |-> p, v |-> v]
Err(p, msg) == [k |-> "Err", pos |-> p, v |-> msg]
Hang(p) == [k |-> "Hang", pos |-> p, v |-> "never returns"]

\* Parser::is_at_end
is_at_end(p) == p >= Len(tokens)

\* Parser::peek
peek(p) == IF is_at_end(p) THEN tokens[Len(tokens)] ELSE tokens[p + 1]

\* Parser::check
check(p, token_type) == ~is_at_end(p) /\ peek(p).t = token_type

\* Parser::advance: the cursor after it
advance(p) == IF ~is_at_end(p) THEN p + 1 ELSE p

\* Parser::consume
consume(p, expected, message) ==
    IF check(p, expected) THEN Ok(advance(p), tokens[advance(p)]) ELSE Err(p, message)

\* Parser::match_token_types: whether one of the types matches at p
match_token_types(p, types) == \E token_type \in types : check(p, token_type)

\* a factor level that also takes the operator +: the flat grammar the
\* precedence ladder is checked against
FactorOps_withPlus == {"SLASH", "STAR", "PLUS"}

\* the operator tokens of each binary level of the grammar
EqualityOps == {"BANG_EQUAL", "EQUAL_EQUAL"}
ComparisonOps == {"GREATER", "GREATER_EQUAL", "LESS", "LESS_EQUAL"}
TermOps == {"MINUS", "PLUS"}
FactorOps == {"SLASH", "STAR"}
UnaryPrefixOps == {"BANG", "MINUS"}

\* a desugaring that runs the increment before the body: the loop order the
\* for loop is checked against
ForDesugar_incrementFirst(initializer, condition, increment, body) ==
    LET body2 == IF increment.e # "None"
                 THEN BlockStmt(<<ExprStmt(increment), body>>)
                 ELSE body
        while_loop == WhileStmt(condition, body2)
    IN  IF initializer.s # "None" THEN BlockStmt(<<initializer, while_loop>>) ELSE while_loop

\* Parser::for_statement, from `let mut body` on: the desugaring
ForDesugar(initializer, condition, increment, body) ==
    LET body2 == IF increment.e # "None"
                 THEN BlockStmt(<<body, ExprStmt(increment)>>)
                 ELSE body
        while_loop == WhileStmt(condition, body2)
    IN  IF initializer.s # "None" THEN BlockStmt(<<initializer, while_loop>>) ELSE while_loop

\* The parsing methods of Parser, one arm each: Rule(method, p, acc) is the
\* call self.method() at cursor p.  The arms named ...Loop are the while
\* loops of the methods, entered with the expression (or the statements)
\* built so far in acc; the other arms take no acc.
RECURSIVE Rule(_, _, _)
Rule(method, p, acc) ==
    CASE method = "primary" ->
            \* the scanner gives every NUMBER and STRING token its literal
            IF match_token_types(p, {"FALSE"}) THEN Ok(p + 1, Literal(Boolean(FALSE)))
            ELSE IF match_token_types(p, {"TRUE"}) THEN Ok(p + 1, Literal(Boolean(TRUE)))
            ELSE IF match_token_types(p, {"NIL"}) THEN Ok(p + 1, Literal(Nil))
            ELSE IF match_token_types(p, {"NUMBER"}) /\ tokens[p + 1].literal.tag = "Number"
            THEN Ok(p + 1, Literal(tokens[p + 1].literal))
            ELSE IF match_token_types(p, {"STRING"}) /\ tokens[p + 1].literal.tag = "String"
            THEN Ok(p + 1, Literal(tokens[p + 1].literal))
            ELSE IF match_token_types(p, {"LEFT_PAREN"})
            THEN LET x == Rule("expression", p + 1, Absent)
                 IN  IF x.k # "Ok" THEN x
                     ELSE LET c == consume(x.pos, "RIGHT_PAREN", "Expect ')' after expression.")
                          IN  IF c.k # "Ok" THEN c ELSE Ok(c.pos, Grouping(x.v))
            ELSE IF match_token_types(p, {"IDENTIFIER"}) THEN Ok(p + 1, Variable(tokens[p + 1]))
            ELSE Err(p, "Expected expression.")
      [] method = "unary" ->
            IF match_token_types(p, UnaryPrefixOps)
            THEN LET right == Rule("unary", p + 1, Absent)
                 IN  IF right.k # "Ok" THEN right
                     ELSE Ok(right.pos, Unary(tokens[p + 1], right.v))
            ELSE Rule("primary", p, Absent)
      [] method = "factor" ->
            LET expr == Rule("unary", p, Absent)
            IN  IF expr.k # "Ok" THEN expr ELSE Rule("FactorLoop", expr.pos, expr.v)
      [] method = "FactorLoop" ->
            IF match_token_types(p, FactorOps)
            THEN LET right == Rule("unary", p + 1, Absent)
                 IN  IF right.k # "Ok" THEN right
                     ELSE Rule("FactorLoop", right.pos, Binary(acc, tokens[p + 1], right.v))
            ELSE Ok(p, acc)
      [] method = "term" ->
            LET expr == Rule("factor", p, Absent)
            IN  IF expr.k # "Ok" THEN expr ELSE Rule("TermLoop", expr.pos, expr.v)
      [] method = "TermLoop" ->
            IF match_token_types(p, TermOps)
            THEN LET right == Rule("factor", p + 1, Absent)
                 IN  IF right.k # "Ok" THEN right
                     ELSE Rule("TermLoop", right.pos, Binary(acc, tokens[p + 1], right.v))
            ELSE Ok(p, acc)
      [] method = "comparison" ->
            LET expr == Rule("term", p, Absent)
            IN  IF expr.k # "Ok" THEN expr ELSE Rule("ComparisonLoop", expr.pos, expr.v)
      [] method = "ComparisonLoop" ->
            IF match_token_types(p, ComparisonOps)
            THEN LET right == Rule("term", p + 1, Absent)
                 IN  IF right.k # "Ok" THEN right
                     ELSE Rule("ComparisonLoop", right.pos, Binary(acc, tokens[p + 1], right.v))
            ELSE Ok(p, acc)
      [] method = "equality" ->
            LET expr == Rule("comparison", p, Absent)
            IN  IF expr.k # "Ok" THEN expr ELSE Rule("EqualityLoop", expr.pos, expr.v)
      [] method = "EqualityLoop" ->
            IF match_token_types(p, EqualityOps)
            THEN LET right == Rule("comparison", p + 1, Absent)
                 IN  IF right.k # "Ok" THEN right
                     ELSE Rule("EqualityLoop", right.pos, Binary(acc, tokens[p + 1], right.v))
            ELSE Ok(p, acc)
      [] method = "assignment" ->
            LET expr == Rule("equality", p, Absent)
            IN  IF expr.k # "Ok" THEN expr
                ELSE IF match_token_types(expr.pos, {"EQUAL"})
                THEN LET value == Rule("assignment", expr.pos + 1, Absent)
                     IN  IF value.k # "Ok" THEN value
                         ELSE IF expr.v.e = "Variable"
                         THEN Ok(value.pos, Assign(expr.v.name, value.v))
                         ELSE Err(value.pos, "Invalid assignment target")
                ELSE expr
      [] method = "expression" -> Rule("assignment", p, Absent)
      [] method = "expression_statement" ->
            LET expr == Rule("expression", p, Absent)
            IN  IF expr.k # "Ok" THEN expr
                ELSE LET c == consume(expr.pos, "SEMICOLON", "Expect ';' after expression.")
                     IN  IF c.k # "Ok" THEN c ELSE Ok(c.pos, ExprStmt(expr.v))
      [] method = "print_statement" ->
            LET value == Rule("expression", p, Absent)
            IN  IF value.k # "Ok" THEN value
                ELSE LET c == consume(value.pos, "SEMICOLON", "Expect ';' after value.")
                     IN  IF c.k # "Ok" THEN c ELSE Ok(c.pos, PrintStmt(value.v))
      [] method = "var_declaration" ->
            LET name == consume(p, "IDENTIFIER", "Expect variable name.")
            IN  IF name.k # "Ok" THEN name
                ELSE LET initializer == IF match_token_types(name.pos, {"EQUAL"})
                                        THEN Rule("expression", name.pos + 1, Absent)
                                        ELSE Ok(name.pos, Absent)
                     IN  IF initializer.k # "Ok" THEN initializer
                         ELSE LET c == consume(initializer.pos, "SEMICOLON",
                                               "Expect ';' after value.")
                              IN  IF c.k # "Ok" THEN c
                                  ELSE Ok(c.pos, VarStmt(name.v, initializer.v))
      [] method = "if_statement" ->
            LET l == consume(p, "LEFT_PAREN", "Expected '(' after 'if'")
            IN  IF l.k # "Ok" THEN l ELSE
                LET condition == Rule("expression", l.pos, Absent)
                IN  IF condition.k # "Ok" THEN condition ELSE
                    LET r == consume(condition.pos, "RIGHT_PAREN",
                                     "Expected ')' after 'if' condition")
                    IN  IF r.k # "Ok" THEN r ELSE
                        LET then_branch == Rule("statement", r.pos, Absent)
                        IN  IF then_branch.k # "Ok" THEN then_branch ELSE
                            LET else_branch ==
                                    IF match_token_types(then_branch.pos, {"ELSE"})
                                    THEN Rule("statement", then_branch.pos + 1, Absent)
                                    ELSE Ok(then_branch.pos, Absent)
                            IN  IF else_branch.k # "Ok" THEN else_branch
                                ELSE Ok(else_branch.pos,
                                        IfStmt(condition.v, then_branch.v, else_branch.v))
      [] method = "for_statement" ->
            LET l == consume(p, "LEFT_PAREN", "Expected '(' after 'for'")
            IN  IF l.k # "Ok" THEN l ELSE
                LET initializer == IF match_token_types(l.pos, {"VAR"})
                                   THEN Rule("var_declaration", l.pos + 1, Absent)
                                   ELSE Rule("expression_statement", l.pos, Absent)
                IN  IF initializer.k # "Ok" THEN initializer ELSE
                    LET condition == IF ~check(initializer.pos, "SEMICOLON")
                                     THEN Rule("expression", initializer.pos, Absent)
                                     ELSE Ok(initializer.pos, Literal(Boolean(TRUE)))
                    IN  IF condition.k # "Ok" THEN condition ELSE
                        LET s == consume(condition.pos, "SEMICOLON",
                                         "Expect ';' after condition of for loop.")
                        IN  IF s.k # "Ok" THEN s ELSE
                            LET increment == IF ~check(s.pos, "RIGHT_PAREN")
                                             THEN Rule("expression", s.pos, Absent)
                                             ELSE Ok(s.pos, Absent)
                            IN  IF increment.k # "Ok" THEN increment ELSE
                                LET r == consume(increment.pos, "RIGHT_PAREN",
                                                 "Expect ')' after for loop.")
                                IN  IF r.k # "Ok" THEN r ELSE
                                    LET body == Rule("statement", r.pos, Absent)
                                    IN  IF body.k # "Ok" THEN body
                                        ELSE Ok(body.pos,
                                                ForDesugar(initializer.v, condition.v,
                                                           increment.v, body.v))
      [] method = "while_statement" ->
            LET l == consume(p, "LEFT_PAREN", "Expected '(' after 'while'")
            IN  IF l.k # "Ok" THEN l ELSE
                LET condition == Rule("expression", l.pos, Absent)
                IN  IF condition.k # "Ok" THEN condition ELSE
                    LET r == consume(condition.pos, "RIGHT_PAREN",
                                     "Expected ')' after 'while' condition")
                    IN  IF r.k # "Ok" THEN r ELSE
                        LET body == Rule("statement", r.pos, Absent)
                        IN  IF body.k # "Ok" THEN body
                            ELSE Ok(body.pos, WhileStmt(condition.v, body.v))
      [] method = "block" -> Rule("BlockLoop", p, <<>>)
      [] method = "BlockLoop" ->
            \* A call of declaration that fails is dropped without a diagnostic
            \* and without resynchronizing; if it also left the cursor where it
            \* was, the next turn of the loop is the same call in the same
            \* state, so the loop never ends.
            IF ~check(p, "RIGHT_BRACE") /\ ~is_at_end(p)
            THEN LET d == Rule("declaration", p, Absent)
                 IN  CASE d.k = "Ok" -> Rule("BlockLoop", d.pos, Append(acc, d.v))
                       [] d.k = "Hang" -> d
                       [] d.k = "Err" -> IF d.pos = p THEN Hang(p)
                                         ELSE Rule("BlockLoop", d.pos, acc)
            ELSE LET c == consume(p, "RIGHT_BRACE", "Expected '}' after block.")
                 IN  IF c.k # "Ok" THEN c ELSE Ok(c.pos, acc)
      [] method = "statement" ->
            IF match_token_types(p, {"IF"}) THEN Rule("if_statement", p + 1, Absent)
            ELSE IF match_token_types(p, {"PRINT"}) THEN Rule("print_statement", p + 1, Absent)
            ELSE IF match_token_types(p, {"LEFT_BRACE"})
            THEN LET b == Rule("block", p + 1, Absent)
                 IN  IF b.k # "Ok" THEN b ELSE Ok(b.pos, BlockStmt(b.v))
            ELSE IF match_token_types(p, {"WHILE"}) THEN Rule("while_statement", p + 1, Absent)
            ELSE IF match_token_types(p, {"FOR"}) THEN Rule("for_statement", p + 1, Absent)
            ELSE Rule("expression_statement", p, Absent)
      [] method = "declaration" ->
            IF match_token_types(p, {"VAR"}) THEN Rule("var_declaration", p + 1, Absent)
            ELSE Rule("statement", p, Absent)

\* Parser::expression
expression(p) == Rule("expression", p, Absent)

\* Parser::statement
statement(p) == Rule("statement", p, Absent)

\* Parser::declaration
declaration(p) == Rule("declaration", p, Absent)

\* Parser::synchronize called at cursor p: the cursor it returns with, or a
\* panic when Parser::previous is called with pos == 0
RECURSIVE synchronize(_)
synchronize(p) ==
    IF ~is_at_end(p)
    THEN IF p = 0 THEN [k |-> "Panic", pos |-> p]
         ELSE IF tokens[p].t = "SEMICOLON" THEN [k |-> "Ok", pos |-> p]
         ELSE IF peek(p).t \in {"CLASS", "FUN", "VAR", "FOR", "IF", "WHILE", "PRINT", "RETURN"}
         THEN [k |-> "Ok", pos |-> p]
         ELSE synchronize(advance(p))
    ELSE [k |-> "Ok", pos |-> p]

\* Parser::parse, the rest of a turn of its loop once declaration has
\* returned d: the cursor, the statements, stderr and where the pipeline is
\* afterwards.  A call of declaration that never returns leaves parse hung; a
\* panic in synchronize unwinds through run, which has no handler.
parse_match(d, stmts, dg) ==
    CASE d.k = "Hang" ->
            [pos |-> d.pos, statements |-> stmts, diag |-> dg, pc |-> "hung"]
      [] d.k = "Ok" ->
            [pos |-> d.pos, statements |-> Append(stmts, d.v), diag |-> dg,
             pc |-> IF check(d.pos, "EOF") THEN "interpret" ELSE "parse"]
      [] d.k = "Err" ->
            LET sy == synchronize(d.pos)
                dg2 == Emit(dg, "Parsing error", Msg(d.v, <<>>))
            IN  IF sy.k = "Panic"
                THEN [pos |-> d.pos, statements |-> stmts, pc |-> "panicked",
                      diag |-> Emit(dg2, "panic", Msg("Previous token is empty", <<>>))]
                ELSE [pos |-> sy.pos, statements |-> stmts, diag |-> dg2,
                      pc |-> IF check(sy.pos, "EOF") THEN "interpret" ELSE "parse"]

\* Parser::parse: one turn of `while !self.is_at_end()` taken at cursor p with
\* the statements stmts collected, or the return when the loop has ended
parse_turn(p, stmts, dg) ==
    IF is_at_end(p)
    THEN [pos |-> p, statements |-> stmts, diag |-> dg, pc |-> "interpret"]
    ELSE parse_match(declaration(p), stmts, dg)

\* Parser::parse, a turn of its loop
ParseLoop ==
    /\ pc = "parse"
    /\ LET r == parse_turn(pos, statements, diag)
       IN  /\ pos' = r.pos
           /\ statements' = r.statements
           /\ diag' = r.diag
           /\ pc' = r.pc
    /\ UNCHANGED <<scanVars, runVars>>

----------------------------------------------------------------------------
(* environment.rs.  es is the sequence of live Environment objects, an      *)
(* environment is named by its index in es, and parent = 0 is Option::None. *)

\* HashMap::new()
EmptyMap == [n \in {} |-> Nil]

\* HashMap::insert
Insert(values, name, value) ==
    [n \in DOMAIN values \cup {name} |-> IF n = name THEN value ELSE values[n]]

\* Environment::new
EnvNew == [values |-> EmptyMap, parent |-> 0]

\* Environment::enclose
enclose(parent) == [values |-> EmptyMap, parent |-> parent]

\* the error text of Environment::assign and Environment::get
NotDefined(name) == Msg("Runtime error: Variable not defined", name)

\* Environment::define on environment e
define(es, e, name, value) ==
    [es EXCEPT ![e].values = Insert(es[e].values, name, value)]

\* an assign that defines a missing name in the outermost environment: the
\* implicit-global behaviour assignment is checked against
RECURSIVE assign_defining(_, _, _, _)
assign_defining(es, e, name, value) ==
    IF name \in DOMAIN es[e].values \/ es[e].parent = 0
    THEN [ok |-> TRUE, v |-> value,
          envs |-> [es EXCEPT ![e].values = Insert(es[e].values, name, value)]]
    ELSE assign_defining(es, es[e].parent, name, value)

\* an assign that writes the binding into environment e itself whenever the
\* chain defines the name: the shadowing write assignment is checked against
RECURSIVE assign_local(_, _, _, _)
assign_local(es, e, name, value) ==
    LET RECURSIVE defined(_)
        defined(i) == name \in DOMAIN es[i].values
                        \/ (es[i].parent # 0 /\ defined(es[i].parent))
    IN  IF defined(e)
        THEN [ok |-> TRUE, v |-> value,
              envs |-> [es EXCEPT ![e].values = Insert(es[e].values, name, value)]]
        ELSE [ok |-> FALSE, v |-> NotDefined(name), envs |-> es]

\* Environment::assign on environment e
RECURSIVE assign(_, _, _, _)
assign(es, e, name, value) ==
    IF name \in DOMAIN es[e].values
    THEN [ok |-> TRUE, v |-> value,
          envs |-> [es EXCEPT ![e].values = Insert(es[e].values, name, value)]]
    ELSE IF es[e].parent # 0
    THEN assign(es, es[e].parent, name, value)
    ELSE [ok |-> FALSE, v |-> NotDefined(name), envs |-> es]

\* a get that asks the parent first and its own map last: the outermost-first
\* lookup variable lookup is checked against
RECURSIVE get_outermost(_, _, _)
get_outermost(es, e, name) ==
    LET up == IF es[e].parent # 0 THEN get_outermost(es, es[e].parent, name)
              ELSE [ok |-> FALSE, v |-> NotDefined(name), envs |-> es]
    IN  IF up.ok THEN up
        ELSE IF name \in DOMAIN es[e].values
        THEN [ok |-> TRUE, v |-> es[e].values[name], envs |-> es]
        ELSE up

\* Environment::get on environment e
RECURSIVE get(_, _, _)
get(es, e, name) ==
    IF name \in DOMAIN es[e].values
    THEN [ok |-> TRUE, v |-> es[e].values[name], envs |-> es]
    ELSE IF es[e].parent # 0
    THEN get(es, es[e].parent, name)
    ELSE [ok |-> FALSE, v |-> NotDefined(name), envs |-> es]

----------------------------------------------------------------------------
(* interpreter.rs *)

\* number of fractional digits Stringify writes for a quotient whose decimal
\* expansion does not end
MaxFracDigits == 16

\* the decimal digits of a natural number
RECURSIVE NatDigits(_)
NatDigits(n) ==
    LET d == <<"0", "1", "2", "3", "4", "5", "6", "7", "8", "9">>[(n % 10) + 1]
    IN  IF n < 10 THEN <<d>> ELSE Append(NatDigits(n \div 10), d)

\* the digits after the decimal point of rem/den, by long division
RECURSIVE FracDigits(_, _, _)
FracDigits(rem, den, k) ==
    IF rem = 0 \/ k = 0 THEN <<>>
    ELSE NatDigits((10 * rem) \div den) \o FracDigits((10 * rem) % den, den, k - 1)

\* Interpreter::stringify
stringify(value) ==
    CASE value.tag = "Number" ->
            LET a == Abs(value.num)
                whole == NatDigits(a \div value.den)
                frac == FracDigits(a % value.den, value.den, MaxFracDigits)
            IN  (IF value.num < 0 THEN <<"-">> ELSE <<>>)
                \o whole \o (IF frac = <<>> THEN <<>> ELSE <<".">> \o frac)
      [] value.tag = "Boolean" ->
            IF value.b THEN <<"t", "r", "u", "e">> ELSE <<"f", "a", "l", "s", "e">>
      [] value.tag = "String" -> value.s
      [] value.tag = "Nil" -> <<"n", "i", "l">>

\* a rule under which Number 0 and the empty String are falsy as well: the
\* rule is_truthy is checked against
is_truthy_zeroFalsy(value) ==
    CASE value.tag = "Boolean" -> value.b
      [] value.tag = "Nil" -> FALSE
      [] value.tag = "Number" -> value.num # 0
      [] value.tag = "String" -> value.s # <<>>

\* Interpreter::is_truthy
is_truthy(value) ==
    CASE value.tag = "Boolean" -> value.b
      [] value.tag = "Nil" -> FALSE
      [] OTHER -> TRUE

\* Result<Value, String> of an evaluation, with the environments it leaves
EvalOk(v, es) == [ok |-> TRUE, v |-> v, envs |-> es]
EvalErr(text, es) == [ok |-> FALSE, v |-> Msg(text, <<>>), envs |-> es]

\* the less-than of two Number payloads
NumLess(a, b) == a.num * b.den < b.num * a.den

\* a match whose + converts the other operand when one operand is a String:
\* the coercing addition the type rule of + is checked against
BinaryOp_coercing(op, l, r, es) ==
    LET nums == l.tag = "Number" /\ r.tag = "Number" IN
    CASE op = "PLUS" ->
            IF nums THEN EvalOk(Ratio(l.num * r.den + r.num * l.den, l.den * r.den), es)
            ELSE IF l.tag = "String" \/ r.tag = "String"
            THEN EvalOk(String(stringify(l) \o stringify(r)), es)
            ELSE EvalErr("not supported or mismatching types", es)
      [] op = "MINUS" ->
            IF nums THEN EvalOk(Ratio(l.num * r.den - r.num * l.den, l.den * r.den), es)
            ELSE EvalErr("Not a number or non-numeric values for operator", es)
      [] op = "STAR" ->
            IF nums THEN EvalOk(Ratio(l.num * r.num, l.den * r.den), es)
            ELSE EvalErr("not supported or mismatching types", es)
      [] op = "SLASH" ->
            IF nums
            THEN IF r.num = 0 THEN EvalErr("Division by zero not allowed.", es)
                 ELSE EvalOk(Ratio(l.num * r.den, l.den * r.num), es)
            ELSE EvalErr("not supported or types not numeric", es)
      [] op = "EQUAL_EQUAL" -> EvalOk(Boolean(ValueEq(l, r)), es)
      [] op = "BANG_EQUAL" -> EvalOk(Boolean(~ValueEq(l, r)), es)
      [] op = "GREATER" ->
            IF nums THEN EvalOk(Boolean(NumLess(r, l)), es)
            ELSE EvalErr("not supported or mismatching types", es)
      [] op = "GREATER_EQUAL" ->
            IF nums THEN EvalOk(Boolean(~NumLess(l, r)), es)
            ELSE EvalErr("not supported or mismatching types", es)
      [] op = "LESS" ->
            IF nums THEN EvalOk(Boolean(NumLess(l, r)), es)
            ELSE EvalErr("not supported or mismatching types", es)
      [] op = "LESS_EQUAL" ->
            IF nums THEN EvalOk(Boolean(~NumLess(r, l)), es)
            ELSE EvalErr("not supported or mismatching types", es)
      [] OTHER -> EvalErr("unknown binary operator", es)

\* a match whose / gives 0 for a zero divisor instead of the error: the
\* total division the zero check is checked against
BinaryOp_zeroQuotient(op, l, r, es) ==
    LET nums == l.tag = "Number" /\ r.tag = "Number" IN
    CASE op = "PLUS" ->
            IF nums THEN EvalOk(Ratio(l.num * r.den + r.num * l.den, l.den * r.den), es)
            ELSE IF l.tag = "String" /\ r.tag = "String" THEN EvalOk(String(l.s \o r.s), es)
            ELSE EvalErr("not supported or mismatching types", es)
      [] op = "MINUS" ->
            IF nums THEN EvalOk(Ratio(l.num * r.den - r.num * l.den, l.den * r.den), es)
            ELSE EvalErr("Not a number or non-numeric values for operator", es)
      [] op = "STAR" ->
            IF nums THEN EvalOk(Ratio(l.num * r.num, l.den * r.den), es)
            ELSE EvalErr("not supported or mismatching types", es)
      [] op = "SLASH" ->
            IF nums
            THEN IF r.num = 0 THEN EvalOk(Number(0), es)
                 ELSE EvalOk(Ratio(l.num * r.den, l.den * r.num), es)
            ELSE EvalErr("not supported or types not numeric", es)
      [] op = "EQUAL_EQUAL" -> EvalOk(Boolean(ValueEq(l, r)), es)
      [] op = "BANG_EQUAL" -> EvalOk(Boolean(~ValueEq(l, r)), es)
      [] op = "GREATER" ->
            IF nums THEN EvalOk(Boolean(NumLess(r, l)), es)
            ELSE EvalErr("not supported or mismatching types", es)
      [] op = "GREATER_EQUAL" ->
            IF nums THEN EvalOk(Boolean(~NumLess(l, r)), es)
            ELSE EvalErr("not supported or mismatching types", es)
      [] op = "LESS" ->
            IF nums THEN EvalOk(Boolean(NumLess(l, r)), es)
            ELSE EvalErr("not supported or mismatching types", es)
      [] op = "LESS_EQUAL" ->
            IF nums THEN EvalOk(Boolean(~NumLess(r, l)), es)
            ELSE EvalErr("not supported or mismatching types", es)
      [] OTHER -> EvalErr("unknown binary operator", es)

\* Interpreter::evaluate, Expr::Binary: the match on the operator, both
\* operands evaluated
BinaryOp(op, l, r, es) ==
    LET nums == l.tag = "Number" /\ r.tag = "Number" IN
    CASE op = "PLUS" ->
            IF nums THEN EvalOk(Ratio(l.num * r.den + r.num * l.den, l.den * r.den), es)
            ELSE IF l.tag = "String" /\ r.tag = "String" THEN EvalOk(String(l.s \o r.s), es)
            ELSE EvalErr("not supported or mismatching types", es)
      [] op = "MINUS" ->
            IF nums THEN EvalOk(Ratio(l.num * r.den - r.num * l.den, l.den * r.den), es)
            ELSE EvalErr("Not a number or non-numeric values for operator", es)
      [] op = "STAR" ->
            IF nums THEN EvalOk(Ratio(l.num * r.num, l.den * r.den), es)
            ELSE EvalErr("not supported or mismatching types", es)
      [] op = "SLASH" ->
            IF nums
            THEN IF r.num = 0 THEN EvalErr("Division by zero not allowed.", es)
                 ELSE EvalOk(Ratio(l.num * r.den, l.den * r.num), es)
            ELSE EvalErr("not supported or types not numeric", es)
      [] op = "EQUAL_EQUAL" -> EvalOk(Boolean(ValueEq(l, r)), es)
      [] op = "BANG_EQUAL" -> EvalOk(Boolean(~ValueEq(l, r)), es)
      [] op = "GREATER" ->
            IF nums THEN EvalOk(Boolean(NumLess(r, l)), es)
            ELSE EvalErr("not supported or mismatching types", es)
      [] op = "GREATER_EQUAL" ->
            IF nums THEN EvalOk(Boolean(~NumLess(l, r)), es)
            ELSE EvalErr("not supported or mismatching types", es)
      [] op = "LESS" ->
            IF nums THEN EvalOk(Boolean(NumLess(l, r)), es)
            ELSE EvalErr("not supported or mismatching types", es)
      [] op = "LESS_EQUAL" ->
            IF nums THEN EvalOk(Boolean(~NumLess(r, l)), es)
            ELSE EvalErr("not supported or mismatching types", es)
      [] OTHER -> EvalErr("unknown binary operator", es)

\* Interpreter::evaluate with self.environment = e
RECURSIVE evaluate(_, _, _)
evaluate(expr, es, e) ==
    CASE expr.e = "Literal" -> EvalOk(expr.value, es)
      [] expr.e = "Unary" ->
            LET right == evaluate(expr.right, es, e)
            IN  IF ~right.ok THEN right
                ELSE CASE expr.operator.t = "MINUS" ->
                            IF right.v.tag = "Number"
                            THEN EvalOk(Ratio(-right.v.num, right.v.den), right.envs)
                            ELSE EvalErr("Not a number", right.envs)
                       [] expr.operator.t = "BANG" ->
                            EvalOk(Boolean(~is_truthy(right.v)), right.envs)
                       [] OTHER -> EvalErr("Unknown unary operator", right.envs)
      [] expr.e = "Binary" ->
            LET left == evaluate(expr.left, es, e)
            IN  IF ~left.ok THEN left
                ELSE LET right == evaluate(expr.right, left.envs, e)
                     IN  IF ~right.ok THEN right
                         ELSE BinaryOp(expr.operator.t, left.v, right.v, right.envs)
      [] expr.e = "Grouping" -> evaluate(expr.expr, es, e)
      [] expr.e = "Variable" -> get(es, e, expr.name.lexeme)
      [] expr.e = "Assign" ->
            LET value == evaluate(expr.value, es, e)
            IN  IF ~value.ok THEN value
                ELSE LET a == assign(value.envs, e, expr.name.lexeme, value.v)
                     IN  IF ~a.ok THEN a ELSE EvalOk(value.v, a.envs)

(* The interpreter's control stack.  Frames, innermost last:                *)
(*   interpret: the for loop of Interpreter::interpret, at statement i      *)
(*   block:     the for loop of Interpreter::execute_block, at statement i  *)
(*   while:     the while loop of the Stmt::While arm of execute            *)
(*   execute:   a call self.execute(stmt) about to start (a branch of an    *)
(*              if, the body of a while)                                    *)

InterpretFrame(stmts) == [f |-> "interpret", stmts |-> stmts, i |-> 1]
BlockFrame(stmts, previous, new_env) ==
    [f |-> "block", stmts |-> stmts, i |-> 1, previous |-> previous, new_env |-> new_env]
WhileFrame(condition, body) == [f |-> "while", condition |-> condition, body |-> body]
ExecuteFrame(stmt) == [f |-> "execute", stmt |-> stmt]

Top == stack[Len(stack)]
Pop(stk) == SubSeq(stk, 1, Len(stk) - 1)

\* a call of execute is about to start
HasNext ==
    /\ pc = "execute"
    /\ stack # <<>>
    /\ \/ Top.f = "execute"
       \/ Top.f \in {"interpret", "block"} /\ Top.i <= Len(Top.stmts)
    /\ Len(trace) < MaxSteps

\* the statement that call is given
NextStmt == IF Top.f = "execute" THEN Top.stmt ELSE Top.stmts[Top.i]

\* a return that ends interpret when an expression statement or a print
\* raised a runtime error: the fail-fast behaviour interpret is checked against
Returned_failFast ==
    IF /\ NextStmt.s \in {"Expr", "Print"}
       /\ ~evaluate(NextStmt.expr, envs, environment).ok
    THEN <<[stack[1] EXCEPT !.i = Len(stack[1].stmts) + 1]>>
    ELSE IF Top.f = "execute" THEN Pop(stack) ELSE [stack EXCEPT ![Len(stack)].i = @ + 1]

\* the stack once that call has returned
Returned ==
    IF Top.f = "execute" THEN Pop(stack) ELSE [stack EXCEPT ![Len(stack)].i = @ + 1]

\* the index of the top-level statement in progress
TopLevel == IF Len(stack) = 1 THEN stack[1].i ELSE stack[1].i - 1

\* history: a statement-level step
Log(op) == Append(trace, [op |-> op, depth |-> Len(stack), top |-> TopLevel])

\* run: Interpreter::new() and the call of interpret
InterpretCall ==
    /\ pc = "interpret"
    /\ envs' = <<EnvNew>>
    /\ environment' = 1
    /\ stack' = <<InterpretFrame(statements)>>
    /\ pc' = "execute"
    /\ UNCHANGED <<scanVars, parseVars, output, diag, trace>>

\* execute, Stmt::Expr arm: the environments it leaves
execute_Expr(stmt, es, e) == evaluate(stmt.expr, es, e).envs

ExecuteExpr ==
    /\ HasNext
    /\ NextStmt.s = "Expr"
    /\ envs' = execute_Expr(NextStmt, envs, environment)
    /\ stack' = Returned
    /\ trace' = Log("Expr")
    /\ UNCHANGED <<scanVars, parseVars, environment, output, diag, pc>>

\* execute, Stmt::Print arm: what it leaves of the environments, stdout, stderr
execute_Print(stmt, es, e, out, dg) ==
    LET value == evaluate(stmt.expr, es, e)
    IN  [envs |-> value.envs,
         output |-> IF value.ok THEN Append(out, stringify(value.v)) ELSE out,
         diag |-> IF value.ok THEN dg ELSE Emit(dg, "Runtime error", value.v)]

ExecutePrint ==
    /\ HasNext
    /\ NextStmt.s = "Print"
    /\ LET r == execute_Print(NextStmt, envs, environment, output, diag)
       IN  /\ envs' = r.envs
           /\ output' = r.output
           /\ diag' = r.diag
    /\ stack' = Returned
    /\ trace' = Log("Print")
    /\ UNCHANGED <<scanVars, parseVars, environment, pc>>

\* a Var arm that defines nothing when its initializer fails: the declaration
\* the Nil default is checked against
execute_Var_skipping(stmt, es, e) ==
    LET r == IF stmt.init.e # "None" THEN evaluate(stmt.init, es, e) ELSE EvalOk(Nil, es)
    IN  IF r.ok THEN define(r.envs, e, stmt.name.lexeme, r.v) ELSE r.envs

\* execute, Stmt::Var arm: the environments it leaves
execute_Var(stmt, es, e) ==
    LET r == IF stmt.init.e # "None" THEN evaluate(stmt.init, es, e) ELSE EvalOk(Nil, es)
        value == IF r.ok THEN r.v ELSE Nil
    IN  define(r.envs, e, stmt.name.lexeme, value)

ExecuteVar ==
    /\ HasNext
    /\ NextStmt.s = "Var"
    /\ envs' = execute_Var(NextStmt, envs, environment)
    /\ stack' = Returned
    /\ trace' = Log("Var")
    /\ UNCHANGED <<scanVars, parseVars, environment, output, diag, pc>>

\* execute_block, on entry: the value of self.environment while the block's
\* statements run.  new_env is a parameter the function never reads.
BlockEnvironment(previous, new_env) == previous

\* execute, Stmt::Block arm, up to the for loop of execute_block
ExecuteBlock ==
    /\ HasNext
    /\ NextStmt.s = "Block"
    /\ LET new_env == Len(envs) + 1
       IN  /\ envs' = Append(envs, enclose(environment))
           /\ stack' = Append(Returned, BlockFrame(NextStmt.stmts, environment, new_env))
           /\ environment' = BlockEnvironment(environment, new_env)
    /\ trace' = Log("Block")
    /\ UNCHANGED <<scanVars, parseVars, output, diag, pc>>

\* an execute_block that leaves the block's own environment current when it
\* returns: the unrestored exit the block discipline is checked against
BlockReturn_leak ==
    /\ pc = "execute"
    /\ stack # <<>>
    /\ Top.f = "block"
    /\ Top.i > Len(Top.stmts)
    /\ environment' = Top.new_env
    /\ stack' = Pop(stack)
    /\ UNCHANGED <<scanVars, parseVars, envs, output, diag, trace, pc>>

\* execute_block: the for loop has ended; self.environment = previous, and
\* new_env, which nothing else refers to, is dropped
BlockReturn ==
    /\ pc = "execute"
    /\ stack # <<>>
    /\ Top.f = "block"
    /\ Top.i > Len(Top.stmts)
    /\ environment' = Top.previous
    /\ envs' = SubSeq(envs, 1, Top.new_env - 1)
    /\ stack' = Pop(stack)
    /\ UNCHANGED <<scanVars, parseVars, output, diag, trace, pc>>

\* execute, Stmt::If arm: the branch to execute (Absent for none) and stderr
execute_If(stmt, es, e, dg) ==
    LET c == evaluate(stmt.condition, es, e)
    IN  [envs |-> c.envs,
         branch |-> IF ~c.ok THEN Absent
                    ELSE IF is_truthy(c.v) THEN stmt.then_branch
                    ELSE stmt.else_branch,
         diag |-> IF c.ok THEN dg ELSE Emit(dg, "Runtime error in if statement", c.v)]

ExecuteIf ==
    /\ HasNext
    /\ NextStmt.s = "If"
    /\ LET r == execute_If(NextStmt, envs, environment, diag)
       IN  /\ envs' = r.envs
           /\ diag' = r.diag
           /\ stack' = IF r.branch.s = "None" THEN Returned
                       ELSE Append(Returned, ExecuteFrame(r.branch))
    /\ trace' = Log("If")
    /\ UNCHANGED <<scanVars, parseVars, environment, output, pc>>

\* execute, Stmt::While arm: entering the loop
ExecuteWhile ==
    /\ HasNext
    /\ NextStmt.s = "While"
    /\ stack' = Append(Returned, WhileFrame(NextStmt.condition, NextStmt.body))
    /\ trace' = Log("While")
    /\ UNCHANGED <<scanVars, parseVars, envs, environment, output, diag, pc>>

\* a loop that goes on whenever the condition evaluates without error: the
\* loop the test of truthiness is checked against
while_continues_anyValue(c) == c.ok

\* `while let Ok(value) = self.evaluate(condition)`: whether the body runs
while_continues(c) == c.ok /\ is_truthy(c.v)

\* execute, Stmt::While arm: one evaluation of the condition, then the body or
\* the end of the loop
WhileLoop ==
    /\ pc = "execute"
    /\ stack # <<>>
    /\ Top.f = "while"
    /\ Len(trace) < MaxSteps
    /\ LET c == evaluate(Top.condition, envs, environment)
       IN  /\ envs' = c.envs
           /\ stack' = IF while_continues(c)
                       THEN Append(stack, ExecuteFrame(Top.body))
                       ELSE Pop(stack)
    /\ trace' = Log("cond")
    /\ UNCHANGED <<scanVars, parseVars, environment, output, diag, pc>>

\* interpret: the for loop has ended
InterpretReturn ==
    /\ pc = "execute"
    /\ stack # <<>>
    /\ Top.f = "interpret"
    /\ Top.i > Len(Top.stmts)
    /\ stack' = <<>>
    /\ pc' = "done"
    /\ UNCHANGED <<scanVars, parseVars, envs, environment, output, diag, trace>>

----------------------------------------------------------------------------
(* Inputs: source texts *)

K_var == <<"v", "a", "r">>
K_print == <<"p", "r", "i", "n", "t">>
K_for == <<"f", "o", "r">>
K_if == <<"i", "f">>
K_while == <<"w", "h", "i", "l", "e">>
K_true == <<"t", "r", "u", "e">>
K_false == <<"f", "a", "l", "s", "e">>
K_nil == <<"n", "i", "l">>

RECURSIVE Flatten(_)
Flatten(ss) == IF ss = <<>> THEN <<>> ELSE Head(ss) \o Flatten(Tail(ss))

\* the source text of a literal that evaluates to v
LiteralText(v) ==
    CASE v.tag = "Number" -> NatDigits(v.num)
      [] v.tag = "String" -> <<QUOTE>> \o v.s \o <<QUOTE>>
      [] v.tag = "Boolean" -> IF v.b THEN K_true ELSE K_false
      [] v.tag = "Nil" -> K_nil

\* the source text of an operator token
OpText(t) ==
    CASE t = "PLUS" -> <<"+">> [] t = "MINUS" -> <<"-">> [] t = "STAR" -> <<"*">>
      [] t = "SLASH" -> <<"/">> [] t = "GREATER" -> <<">">> [] t = "GREATER_EQUAL" -> <<">", "=">>
      [] t = "LESS" -> <<"<">> [] t = "LESS_EQUAL" -> <<"<", "=">>
      [] t = "EQUAL_EQUAL" -> <<"=", "=">> [] t = "BANG_EQUAL" -> <<"!", "=">>
      [] t = "BANG" -> <<"!">>

BinaryOps == {"PLUS", "MINUS", "STAR", "SLASH", "GREATER", "GREATER_EQUAL", "LESS",
              "LESS_EQUAL", "EQUAL_EQUAL", "BANG_EQUAL"}
UnaryOps == {"BANG", "MINUS"}

\* the values the programs are built from, by index
Val(i) ==
    CASE i = 1 -> Number(1) [] i = 2 -> Number(2) [] i = 3 -> String(<<"s">>)
      [] i = 4 -> Boolean(TRUE) [] i = 5 -> Boolean(FALSE) [] i = 6 -> Nil
Vals == 1..6

SP == <<" ">>
X == <<"x">>
Y == <<"y">>

\* var x = a; { var x = b; print x; } print x;
ShadowText(a, b) ==
    Flatten(<<K_var, SP, X, <<"=">>, LiteralText(Val(a)), <<";", "{">>,
              K_var, SP, X, <<"=">>, LiteralText(Val(b)), <<";">>,
              K_print, SP, X, <<";", "}">>, K_print, SP, X, <<";">>>>)

\* { var x = a; } print x;
BlockLeakText(a) ==
    Flatten(<<<<"{">>, K_var, SP, X, <<"=">>, LiteralText(Val(a)), <<";", "}">>,
              K_print, SP, X, <<";">>>>)

\* for (var x = 0; x < n; x = x + 1) print x;
CountText(n) ==
    Flatten(<<K_for, <<"(">>, K_var, SP, X, <<"=", "0", ";">>, X, <<"<">>, NatDigits(n), <<";">>,
              X, <<"=">>, X, <<"+", "1", ")">>, K_print, SP, X, <<";">>>>)

\* the counting loop, then print x;
ForLeakText(n) == Flatten(<<CountText(n), K_print, SP, X, <<";">>>>)

\* the pool of statements the statement-list programs are built from: two
\* well-formed prints, three malformed statements, five statements whose
\* execution raises a runtime error (x is never defined)
StmtText(i) ==
    CASE i = 1 -> Flatten(<<K_print, SP, <<"1", ";">>>>)
      [] i = 2 -> Flatten(<<K_print, SP, <<"2", ";">>>>)
      [] i = 3 -> Flatten(<<K_var, SP, <<";">>>>)
      [] i = 4 -> <<")", ";">>
      [] i = 5 -> Flatten(<<K_print, SP, <<";">>>>)
      [] i = 6 -> <<"x", ";">>
      [] i = 7 -> Flatten(<<K_print, SP, <<"x", ";">>>>)
      [] i = 8 -> Flatten(<<K_var, SP, <<"y", "=", "x", ";">>>>)
      [] i = 9 -> Flatten(<<K_if, <<"(", "x", ")">>, K_print, SP, <<"3", ";">>>>)
      [] i = 10 -> Flatten(<<K_while, <<"(", "x", ")">>, K_print, SP, <<"3", ";">>>>)
WellFormed == {1, 2}
Malformed == {3, 4, 5}
Failing == {6, 7, 8, 9, 10}

RECURSIVE StmtsText(_)
StmtsText(parts) ==
    IF parts = <<>> THEN <<>> ELSE StmtText(Head(parts)) \o StmtsText(Tail(parts))

\* the sequences of 1..n elements of S
SeqsUpTo(S, n) == UNION {[1..k -> S] : k \in 1..n}

\* print 1 op1 2 op2 3;
BinText(op1, op2) ==
    Flatten(<<K_print, SP, <<"1">>, OpText(op1), <<"2">>, OpText(op2), <<"3", ";">>>>)

\* print u 1 op 2;
UnaryText(u, op) ==
    Flatten(<<K_print, SP, OpText(u), <<"1">>, OpText(op), <<"2", ";">>>>)

\* var x; print x = 1 op 2;
AssignText(op) ==
    Flatten(<<K_var, SP, X, <<";">>, K_print, SP, X, <<"=", "1">>, OpText(op), <<"2", ";">>>>)

\* var x = 1; var y = 2; print x = y = v;
ChainText(v) ==
    Flatten(<<K_var, SP, X, <<"=", "1", ";">>, K_var, SP, Y, <<"=", "2", ";">>,
              K_print, SP, X, <<"=">>, Y, <<"=">>, LiteralText(Val(v)), <<";">>>>)

\* the initializers of a var: none, and four expressions whose evaluation
\* raises a runtime error
InitText(i) ==
    CASE i = 0 -> <<>>
      [] i = 1 -> <<"=">> \o Y
      [] i = 2 -> <<"=", "1", "/", "0">>
      [] i = 3 -> <<"=", "-", QUOTE, "s", QUOTE>>
      [] i = 4 -> <<"=", "1", "+", QUOTE, "s", QUOTE>>
Inits == 0..4

\* [var x = a;] var x [= e]; print x;
VarDeclText(pre, init) ==
    Flatten(<<IF pre = 0 THEN <<>>
              ELSE Flatten(<<K_var, SP, X, <<"=">>, LiteralText(Val(pre)), <<";">>>>),
              K_var, SP, X, InitText(init), <<";">>, K_print, SP, X, <<";">>>>)

\* var x = 0; while (c) print x = x + 1; print x;  where c is  x < n,  falsy
\* at its evaluation n + 1, or  1 / (n - x),  a runtime error at its
\* evaluation n + 1
WhileText(n, err) ==
    Flatten(<<K_var, SP, X, <<"=", "0", ";">>, K_while, <<"(">>,
              IF err THEN <<"1", "/", "(">> \o NatDigits(n) \o <<"-">> \o X \o <<")">>
              ELSE X \o <<"<">> \o NatDigits(n),
              <<")">>, K_print, SP, X, <<"=">>, X, <<"+", "1", ";">>,
              K_print, SP, X, <<";">>>>)

\* the values whose truthiness is tested
TruthVal(i) ==
    CASE i = 1 -> Nil [] i = 2 -> Boolean(FALSE) [] i = 3 -> Boolean(TRUE)
      [] i = 4 -> Number(0) [] i = 5 -> Number(1)
      [] i = 6 -> String(<<>>) [] i = 7 -> String(<<"s">>)
TruthVals == 1..7

\* if (v) print 1; else print 2;   var x = v; while (x) print x = nil;
\* print !v;
TruthText(form, v) ==
    CASE form = "if" ->
            Flatten(<<K_if, <<"(">>, LiteralText(TruthVal(v)), <<")">>, K_print, SP,
                      <<"1", ";">>, <<"e", "l", "s", "e", " ">>, K_print, SP, <<"2", ";">>>>)
      [] form = "while" ->
            Flatten(<<K_var, SP, X, <<"=">>, LiteralText(TruthVal(v)), <<";">>,
                      K_while, <<"(">>, X, <<")">>, K_print, SP, X, <<"=">>, K_nil, <<";">>>>)
      [] form = "bang" ->
            Flatten(<<K_print, SP, <<"!">>, LiteralText(TruthVal(v)), <<";">>>>)

\* [var y = 1;] S [print y;] print x;  where S is  x = v;  or  print x = v;
\* at top level, inside one block or inside two
UndefText(pre, depth, printed, v) ==
    LET s == Flatten(<<IF printed THEN K_print \o SP ELSE <<>>, X, <<"=">>,
                       LiteralText(Val(v)), <<";">>>>)
        nested == CASE depth = 0 -> s
                    [] depth = 1 -> <<"{">> \o s \o <<"}">>
                    [] depth = 2 -> <<"{", "{">> \o s \o <<"}", "}">>
    IN  Flatten(<<IF pre THEN Flatten(<<K_var, SP, Y, <<"=", "1", ";">>>>) ELSE <<>>,
                  nested,
                  IF pre THEN Flatten(<<K_print, SP, Y, <<";">>>>) ELSE <<>>,
                  K_print, SP, X, <<";">>>>)

\* print 1; //
\* print 2;
CommentText == Flatten(<<K_print, SP, <<"1", ";", "/", "/", NL>>, K_print, SP, <<"2", ";">>>>)

\* the operand values of the one-operator programs, by index
Operand(i) ==
    CASE i = 1 -> Number(0) [] i = 2 -> Number(1) [] i = 3 -> Number(2)
      [] i = 4 -> String(<<"a">>) [] i = 5 -> String(<<"b">>) [] i = 6 -> String(<<"1">>)
      [] i = 7 -> Boolean(TRUE) [] i = 8 -> Boolean(FALSE) [] i = 9 -> Nil
Operands == 1..9

\* the operators of the one-operator programs
OperandOps == {"PLUS", "SLASH", "EQUAL_EQUAL", "BANG_EQUAL"}

\* print a op b;
OperandsText(op, a, b) ==
    Flatten(<<K_print, SP, LiteralText(Operand(a)), OpText(op), LiteralText(Operand(b)), <<";">>>>)

\* for ([var x = 0]; [x < 1]; [x = x + 1]) print 1;  with each clause there or omitted
ForClauseText(init, cond, incr) ==
    Flatten(<<K_for, <<"(">>,
              IF init THEN Flatten(<<K_var, SP, X, <<"=", "0">>>>) ELSE <<>>, <<";">>,
              IF cond THEN X \o <<"<", "1">> ELSE <<>>, <<";">>,
              IF incr THEN Flatten(<<X, <<"=">>, X, <<"+", "1">>>>) ELSE <<>>, <<")">>,
              K_print, SP, <<"1", ";">>>>)

Programs ==
    {[kind |-> "shadow", a |-> a, b |-> b] : a \in Vals, b \in Vals}
    \cup {[kind |-> "blockleak", a |-> a] : a \in Vals}
    \cup {[kind |-> "forleak", n |-> n] : n \in 0..MaxN}
    \cup {[kind |-> "count", n |-> n] : n \in 0..MaxN}
    \cup {[kind |-> "onebad", parts |-> p] :
            p \in {q \in SeqsUpTo(WellFormed \cup Malformed, MaxStmts) :
                     Cardinality({i \in DOMAIN q : q[i] \in Malformed}) = 1}}
    \cup {[kind |-> "failing", parts |-> p] :
            p \in SeqsUpTo({1} \cup Failing, MaxStmts)}
    \cup {[kind |-> "bin", op1 |-> a, op2 |-> b] : a \in BinaryOps, b \in BinaryOps}
    \cup {[kind |-> "unary", op1 |-> u, op2 |-> b] : u \in UnaryOps, b \in BinaryOps}
    \cup {[kind |-> "assign", op1 |-> b] : b \in BinaryOps}
    \cup {[kind |-> "undef", pre |-> pre, depth |-> d, printed |-> pr, v |-> v] :
            pre \in BOOLEAN, d \in 0..2, pr \in BOOLEAN, v \in Vals}
    \cup {[kind |-> "comment"]}
    \cup {[kind |-> "operands", op |-> op, a |-> a, b |-> b] :
            op \in OperandOps, a \in Operands, b \in Operands}
    \cup {[kind |-> "forclause", init |-> i, cond |-> c, incr |-> n] :
            i \in BOOLEAN, c \in BOOLEAN, n \in BOOLEAN}
    \cup {[kind |-> "chain", v |-> v] : v \in Vals}
    \cup {[kind |-> "while", n |-> n, err |-> e] : n \in 0..MaxN, e \in BOOLEAN}
    \cup {[kind |-> "truthy", form |-> f, v |-> v] :
            f \in {"if", "while", "bang"}, v \in TruthVals}
    \cup {[kind |-> "vardecl", pre |-> a, init |-> i] : a \in {0} \cup Vals, i \in Inits}

SourceText(p) ==
    CASE p.kind = "shadow" -> ShadowText(p.a, p.b)
      [] p.kind = "blockleak" -> BlockLeakText(p.a)
      [] p.kind = "forleak" -> ForLeakText(p.n)
      [] p.kind = "count" -> CountText(p.n)
      [] p.kind \in {"onebad", "failing"} -> StmtsText(p.parts)
      [] p.kind = "bin" -> BinText(p.op1, p.op2)
      [] p.kind = "unary" -> UnaryText(p.op1, p.op2)
      [] p.kind = "assign" -> AssignText(p.op1)
      [] p.kind = "undef" -> UndefText(p.pre, p.depth, p.printed, p.v)
      [] p.kind = "comment" -> CommentText
      [] p.kind = "operands" -> OperandsText(p.op, p.a, p.b)
      [] p.kind = "forclause" -> ForClauseText(p.init, p.cond, p.incr)
      [] p.kind = "chain" -> ChainText(p.v)
      [] p.kind = "truthy" -> TruthText(p.form, p.v)
      [] p.kind = "while" -> WhileText(p.n, p.err)
      [] p.kind = "vardecl" -> VarDeclText(p.pre, p.init)

----------------------------------------------------------------------------
(* Specifications *)

\* Scanner::new(src), with the parser and the interpreter not yet constructed
ScannerNew(text) ==
    /\ src = text
    /\ tokens = <<>>
    /\ start = 0
    /\ current = 0
    /\ line = 1
    /\ pos = 0
    /\ statements = <<>>
    /\ envs = <<>>
    /\ environment = 0
    /\ stack = <<>>
    /\ output = <<>>
    /\ diag = <<>>
    /\ trace = <<>>
    /\ pc = "scan"

\* main.rs::run on a program of the families above
Init ==
    /\ prog \in Programs
    /\ ScannerNew(SourceText(prog))

ScanNext == ScanToken \/ LineCommentLoop \/ StringLoop \/ ScanReturn

RunNext ==
    \/ InterpretCall
    \/ ExecuteExpr
    \/ ExecutePrint
    \/ ExecuteVar
    \/ ExecuteBlock
    \/ BlockReturn
    \/ ExecuteIf
    \/ ExecuteWhile
    \/ WhileLoop
    \/ InterpretReturn

Next == ScanNext \/ ParseLoop \/ RunNext

Spec == Init /\ [][Next]_vars

\* the characters the exhaustively enumerated source texts are made of
ScanAlphabet == {"/", "*", NL, QUOTE, "1", "a", "=", " ", "#"}

\* longer texts with comments: a line comment between two numbers and one
\* that runs to the end of input, block comments (plain, holding text, nested,
\* followed by a newline) before a number, and block comments left open
CommentTexts ==
    {<<"1", " ", "/", "/", " ", "a", NL, "2">>,
     <<"1", "/", "/", NL, "2">>,
     <<"1", " ", "/", "/", " ", "a">>,
     <<"/", "*", "*", "/", "1">>,
     <<"/", "*", "a", "*", "/", "1">>,
     <<"/", "*", " ", "a", " ", "/", "*", " ", "b", " ", "*", "/", " ", "c", " ", "*", "/", "1">>,
     <<"/", "*", "a", NL, "*", "/", " ", "1">>,
     <<"/", "*", "*", "/", NL, "1">>,
     <<"/", "*", " ", "a", " ", "/", "*", " ", "b", " ", "*", "/", " ", "c">>}

\* scan_tokens on every text of at most MaxSrcLen characters of ScanAlphabet
\* and on the longer texts with comments
ScanInit ==
    /\ prog = [kind |-> "text"]
    /\ \E text \in {<<>>} \cup SeqsUpTo(ScanAlphabet, MaxSrcLen) \cup CommentTexts :
          ScannerNew(text)

ScanSpec == ScanInit /\ [][ScanNext]_vars

\* canonical tokens, as the scanner produces them on line 1
TokenOf(t) ==
    CASE t = "NUMBER" -> Token(t, <<"1">>, Number(1), 1)
      [] t = "IDENTIFIER" -> Token(t, <<"x">>, None, 1)
      [] t = "SEMICOLON" -> Token(t, <<";">>, None, 1)
      [] t = "PRINT" -> Token(t, K_print, None, 1)
      [] t = "VAR" -> Token(t, K_var, None, 1)
      [] t = "LEFT_BRACE" -> Token(t, <<"{">>, None, 1)
      [] t = "RIGHT_BRACE" -> Token(t, <<"}">>, None, 1)
      [] t = "RIGHT_PAREN" -> Token(t, <<")">>, None, 1)
      [] t = "EOF" -> Token(t, <<>>, None, 1)

\* the token kinds the exhaustively enumerated token sequences are made of
ParseAlphabet == {"NUMBER", "IDENTIFIER", "SEMICOLON", "PRINT", "VAR", "LEFT_BRACE",
                  "RIGHT_BRACE", "RIGHT_PAREN"}

\* Parser::new(tokens) on every sequence of at most MaxTokLen tokens of
\* ParseAlphabet followed by EOF
ParseInit ==
    /\ prog = [kind |-> "tokens"]
    /\ \E ts \in {<<>>} \cup SeqsUpTo(ParseAlphabet, MaxTokLen) :
          tokens = [i \in 1..(Len(ts) + 1) |-> IF i <= Len(ts) THEN TokenOf(ts[i]) ELSE TokenOf("EOF")]
    /\ src = <<>>
    /\ start = 0
    /\ current = 0
    /\ line = 1
    /\ pos = 0
    /\ statements = <<>>
    /\ envs = <<>>
    /\ environment = 0
    /\ stack = <<>>
    /\ output = <<>>
    /\ diag = <<>>
    /\ trace = <<>>
    /\ pc = "parse"

ParseSpec == ParseInit /\ [][ParseLoop]_vars

----------------------------------------------------------------------------
(* main.rs, run_prompt: one Interpreter, a line at a time *)

\* the lines typed at the prompt, by index
LineText(i) ==
    CASE i = 1 -> Flatten(<<K_var, SP, X, <<"=", "1", ";">>>>)
      [] i = 2 -> X \o <<"=", "2", ";">>
      [] i = 3 -> Flatten(<<K_var, SP, Y, <<"=">>, X, <<";">>>>)
      [] i = 4 -> Flatten(<<K_print, SP, X, <<";">>>>)
      [] i = 5 -> Flatten(<<K_print, SP, Y, <<";">>>>)
      [] i = 6 -> Flatten(<<K_var, SP, X, <<"=", QUOTE, "a", QUOTE, ";">>>>)
      [] i = 7 -> Flatten(<<<<"{">>, X, <<"=", "3", ";", "}">>>>)
      [] i = 8 -> Flatten(<<K_if, <<"(">>, X, <<")">>, X, <<"=", "3", ";">>>>)
      [] i = 9 -> Flatten(<<K_while, <<"(">>, Y, <<")">>, Y, <<"=">>, K_nil, <<";">>>>)
Lines == 1..9

\* run_prompt: Interpreter::new(), then the first line read and handed to run_line
ReplInit ==
    /\ prog \in {[kind |-> "repl", lines |-> ls, i |-> 1] : ls \in SeqsUpTo(Lines, MaxLines)}
    /\ src = LineText(prog.lines[1])
    /\ tokens = <<>>
    /\ start = 0
    /\ current = 0
    /\ line = 1
    /\ pos = 0
    /\ statements = <<>>
    /\ envs = <<EnvNew>>
    /\ environment = 1
    /\ stack = <<>>
    /\ output = <<>>
    /\ diag = <<>>
    /\ trace = <<>>
    /\ pc = "scan"

\* a run_line that constructs its own Interpreter, as run does: the
\* per-line interpreter the session is checked against
InterpretLine_fresh ==
    /\ pc = "interpret"
    /\ envs' = <<EnvNew>>
    /\ environment' = 1
    /\ stack' = <<InterpretFrame(statements)>>
    /\ pc' = "execute"
    /\ UNCHANGED <<scanVars, parseVars, output, diag, trace>>

\* run_line: interpreter.interpret(statements) on the Interpreter of run_prompt
InterpretLine ==
    /\ pc = "interpret"
    /\ stack' = <<InterpretFrame(statements)>>
    /\ pc' = "execute"
    /\ UNCHANGED <<scanVars, parseVars, envs, environment, output, diag, trace>>

\* run_prompt: run_line has returned; the next line is read and handed to
\* run_line, which constructs its Scanner and Parser
PromptLine ==
    /\ pc = "done"
    /\ prog.kind = "repl"
    /\ prog.i < Len(prog.lines)
    /\ prog' = [prog EXCEPT !.i = @ + 1]
    /\ src' = LineText(prog.lines[prog.i + 1])
    /\ tokens' = <<>>
    /\ start' = 0
    /\ current' = 0
    /\ line' = 1
    /\ pos' = 0
    /\ statements' = <<>>
    /\ pc' = "scan"
    /\ UNCHANGED <<envs, environment, stack, output, diag, trace>>

ReplNext ==
    \/ ScanToken
    \/ StringLoop
    \/ ScanReturn
    \/ ParseLoop
    \/ InterpretLine
    \/ ExecuteExpr
    \/ ExecutePrint
    \/ ExecuteVar
    \/ ExecuteBlock
    \/ BlockReturn
    \/ ExecuteIf
    \/ ExecuteWhile
    \/ WhileLoop
    \/ InterpretReturn
    \/ PromptLine

ReplSpec == ReplInit /\ [][ReplNext]_vars

----------------------------------------------------------------------------
(* The Environment objects on their own: any forest of up to MaxEnvs       *)
(* environments, built by enclose and define, with assignment and lookup   *)
(* evaluated in any of them.  environment is the environment the last call *)
(* was made in and trace holds that call with its Result.                  *)

MaxEnvs == 3

EnvNames == {X, Y}
EnvValues == {Number(1), Number(2)}

\* the identifier token of a name
NameToken(name) == Token("IDENTIFIER", name, None, 1)

\* the record of a call: the operation, its name and value arguments, and
\* the Result it returned
Call(op, name, value, r) ==
    <<[op |-> op, name |-> name, value |-> value, ok |-> r.ok, v |-> r.v]>>

\* Interpreter::new(): the global environment
EnvInit ==
    /\ prog = [kind |-> "env"]
    /\ src = <<>>
    /\ tokens = <<>>
    /\ start = 0
    /\ current = 0
    /\ line = 1
    /\ pos = 0
    /\ statements = <<>>
    /\ envs = <<EnvNew>>
    /\ environment = 1
    /\ stack = <<>>
    /\ output = <<>>
    /\ diag = <<>>
    /\ trace = <<>>
    /\ pc = "env"

\* Environment::enclose(parent), as execute does for a Stmt::Block
EnvEnclose ==
    /\ Len(envs) < MaxEnvs
    /\ \E parent \in 1..Len(envs) :
          /\ envs' = Append(envs, enclose(parent))
          /\ environment' = parent
    /\ trace' = Call("enclose", <<>>, Nil, EvalOk(Nil, envs))
    /\ UNCHANGED <<scanVars, parseVars, stack, output, diag, pc>>

\* execute of  var name = value;  in environment e.  x is declared in any
\* environment; y, the name whose binding the calls on x leave alone, is
\* declared as a global only.
EnvDefine ==
    /\ \E e \in 1..Len(envs), name \in EnvNames, value \in EnvValues :
          /\ name = Y => e = 1
          /\ envs' = execute_Var(VarStmt(NameToken(name), Literal(value)), envs, e)
          /\ environment' = e
          /\ trace' = Call("Var", name, value, EvalOk(Nil, envs))
    /\ UNCHANGED <<scanVars, parseVars, stack, output, diag, pc>>

\* evaluate of  name = value  in environment e
EnvAssign ==
    /\ \E e \in 1..Len(envs), name \in EnvNames, value \in EnvValues :
          LET r == evaluate(Assign(NameToken(name), Literal(value)), envs, e)
          IN  /\ envs' = r.envs
              /\ environment' = e
              /\ trace' = Call("Assign", name, value, r)
    /\ UNCHANGED <<scanVars, parseVars, stack, output, diag, pc>>

\* evaluate of  name  in environment e
EnvGet ==
    /\ \E e \in 1..Len(envs), name \in EnvNames :
          LET r == evaluate(Variable(NameToken(name)), envs, e)
          IN  /\ envs' = r.envs
              /\ environment' = e
              /\ trace' = Call("Variable", name, Nil, r)
    /\ UNCHANGED <<scanVars, parseVars, stack, output, diag, pc>>

EnvNext ==
    \/ EnvEnclose
    \/ EnvDefine
    \/ EnvAssign
    \/ EnvGet

EnvSpec == EnvInit /\ [][EnvNext]_vars

----------------------------------------------------------------------------
(* Claims *)

\* C1: running  var x = a; { var x = b; print x; } print x;  prints b and
\* then a: the var inside the block binds x in the block's own environment
\* and leaves the enclosing binding of x unchanged.
C1_ShadowPrintsInnerThenOuter ==
    (prog.kind = "shadow" /\ pc = "done")
        => output = <<stringify(Val(prog.b)), stringify(Val(prog.a))>>

\* C2: a name declared with var inside a block, or in the initializer of a
\* for loop, is no longer defined once the block or loop has finished: the
\* print x; that follows it fails with an undefined-variable error.
C2_BlockLocalUndefinedAfterBlock ==
    (prog.kind \in {"blockleak", "forleak"} /\ pc = "done")
        => /\ diag # <<>>
           /\ diag[Len(diag)] = [kind |-> "Runtime error", text |-> NotDefined(X).text, name |-> X]
           /\ Len(output) = (IF prog.kind = "forleak" THEN prog.n ELSE 0)

\* the scanner is inside scan_tokens
Scanning == pc \in {"scan", "line_comment", "string"}

\* C3: for every source text scan_tokens terminates (while it runs, its next
\* step changes the scanner's state, which cannot go on forever) and returns
\* a token sequence with exactly one EOF token, as its last element.
C3_ScanTerminatesWithOneEOF ==
    /\ Scanning => ENABLED <<ScanNext>>_vars
    /\ pc = "parse" =>
          /\ tokens # <<>>
          /\ \A i \in 1..Len(tokens) : (tokens[i].t = "EOF") <=> (i = Len(tokens))

\* a turn of the loop of Parser::parse that leaves the parser (its cursor and
\* its statements) where it was and the loop running: every later turn does
\* the same
ParserStuck ==
    /\ pc = "parse"
    /\ LET r == parse_turn(pos, statements, diag)
       IN  r.pc = "parse" /\ r.pos = pos /\ r.statements = statements

\* C4: for every token sequence ending in EOF, parse terminates, including
\* when statements fail to parse at top level or inside a block: no call of
\* declaration runs forever and no turn of the top-level loop repeats itself.
C4_ParseTerminates == pc # "hung" /\ ~ParserStuck

\* C5: parse never aborts: for every token sequence ending in EOF, including
\* [EOF] alone and sequences whose first token cannot begin a statement, it
\* returns the list of the statements that parsed.
C5_ParseNeverAborts == pc # "panicked"

\* parse has returned
Parsed == pc \in {"interpret", "execute", "done"}

RECURSIVE WellFormedParts(_)
WellFormedParts(parts) ==
    IF parts = <<>> THEN <<>>
    ELSE IF Head(parts) \in WellFormed
    THEN <<Head(parts)>> \o WellFormedParts(Tail(parts))
    ELSE WellFormedParts(Tail(parts))

IsPrint(s) == s.s = "Print"

\* C6: in a program of ;-terminated top-level statements of which one is
\* malformed, wherever it is, every well-formed statement (here print 1; and
\* print 2;) is in the result of parse, in source order, and is executed.
C6_OneBadStatementIsContained ==
    prog.kind = "onebad" =>
        LET good == WellFormedParts(prog.parts) IN
        /\ pc \notin {"hung", "panicked"}
        /\ ~ParserStuck
        /\ Parsed => SelectSeq(statements, IsPrint)
                        = [i \in 1..Len(good) |-> PrintStmt(Literal(Number(good[i])))]
        /\ pc = "done" => output = [i \in 1..Len(good) |-> NatDigits(good[i])]

\* the interpreter is running and has a step to take
Running == pc = "execute" /\ ENABLED <<RunNext>>_vars

IsPrefix(s, t) == Len(s) <= Len(t) /\ s = SubSeq(t, 1, Len(s))

\* the statement-level steps of a history
Ops(h) == [i \in 1..Len(h) |-> h[i].op]

\* the steps the counting loop takes: the initializer, then condition, body
\* (the block of the print and the increment), increment, n times, then the
\* condition that ends the loop
RECURSIVE CountSteps(_)
CountSteps(n) ==
    IF n = 0 THEN <<"Block", "Var", "While", "cond">>
    ELSE CountSteps(n - 1) \o <<"Block", "Print", "Expr", "cond">>

\* C7: for (var x = 0; x < N; x = x + 1) print x;  runs the initializer once
\* before the first evaluation of the condition, then condition, body,
\* increment in that order, prints 0, 1, ..., N-1 and terminates: the steps
\* taken are always a prefix of that order, a step is possible until the loop
\* has returned, and then all N lines are printed.
C7_ForLoopCounts ==
    prog.kind = "count" =>
        /\ IsPrefix(Ops(trace), CountSteps(prog.n))
        /\ IsPrefix(output, [i \in 1..prog.n |-> NatDigits(i - 1)])
        /\ pc = "execute" => Running
        /\ pc = "done" => /\ Ops(trace) = CountSteps(prog.n)
                          /\ Len(output) = prog.n

C7_Witness ==
    /\ prog.kind = "count"
    /\ prog.n = MaxN
    /\ pc = "done"
    /\ Len(output) = MaxN
    /\ output[MaxN] = NatDigits(MaxN - 1)

\* the level of a binary operator on the precedence ladder
Level(t) ==
    CASE t \in {"BANG_EQUAL", "EQUAL_EQUAL"} -> 1
      [] t \in {"GREATER", "GREATER_EQUAL", "LESS", "LESS_EQUAL"} -> 2
      [] t \in {"MINUS", "PLUS"} -> 3
      [] t \in {"SLASH", "STAR"} -> 4

\* C8: an operator of a higher level binds tighter than an adjacent operator
\* of a lower level.  print 1 op1 2 op2 3;  with op1, op2 of different levels
\* groups around the higher one;  print u 1 op 2;  applies the unary u to 1
\* alone;  print x = 1 op 2;  assigns the value of 1 op 2; and
\* print 1 + 2 * 3;  prints 7.
C8_PrecedenceLadder ==
    /\ (prog.kind = "bin" /\ Parsed /\ Level(prog.op1) # Level(prog.op2)) =>
          LET n1 == Literal(Number(1))
              n2 == Literal(Number(2))
              n3 == Literal(Number(3))
          IN  /\ tokens[3].t = prog.op1 /\ tokens[5].t = prog.op2
              /\ statements =
                   <<PrintStmt(IF Level(prog.op2) > Level(prog.op1)
                               THEN Binary(n1, tokens[3], Binary(n2, tokens[5], n3))
                               ELSE Binary(Binary(n1, tokens[3], n2), tokens[5], n3))>>
    /\ (prog.kind = "unary" /\ Parsed) =>
          /\ tokens[2].t = prog.op1 /\ tokens[4].t = prog.op2
          /\ statements =
               <<PrintStmt(Binary(Unary(tokens[2], Literal(Number(1))), tokens[4],
                                  Literal(Number(2))))>>
    /\ (prog.kind = "assign" /\ Parsed) =>
          /\ tokens[8].t = prog.op1
          /\ Len(statements) = 2
          /\ statements[2] =
               PrintStmt(Assign(tokens[5],
                                Binary(Literal(Number(1)), tokens[8], Literal(Number(2)))))
    /\ (prog.kind = "bin" /\ prog.op1 = "PLUS" /\ prog.op2 = "STAR" /\ pc = "done") =>
          output = <<<<"7">>>>

C8_Witness ==
    /\ prog.kind = "bin" /\ prog.op1 = "PLUS" /\ prog.op2 = "STAR"
    /\ pc = "done"
    /\ output = <<<<"7">>>>

\* the next statement evaluates  name = literal  with name defined nowhere on
\* the chain of the current environment
AssignsUndefined ==
    /\ HasNext
    /\ NextStmt.s \in {"Expr", "Print"}
    /\ NextStmt.expr.e = "Assign"
    /\ NextStmt.expr.value.e = "Literal"
    /\ ~get(envs, environment, NextStmt.expr.name.lexeme).ok

\* C9: evaluating  x = v  with x defined neither in the current environment
\* nor in an ancestor yields the undefined-variable error and changes no
\* environment: afterwards x is still undefined and every binding is as it was.
C9_AssignUndefinedChangesNothing ==
    [][AssignsUndefined =>
         LET name == NextStmt.expr.name.lexeme
             r == evaluate(NextStmt.expr, envs, environment)
         IN  /\ ~r.ok
             /\ r.v = NotDefined(name)
             /\ envs' = envs
             /\ environment' = environment
             /\ ~get(envs', environment', name).ok]_vars

C9_Witness ==
    /\ prog.kind = "undef" /\ prog.pre /\ prog.depth = 2 /\ prog.printed
    /\ pc = "done"
    /\ output = <<<<"1">>>>
    /\ Len(diag) = 2
    /\ diag[1] = [kind |-> "Runtime error", text |-> NotDefined(X).text, name |-> X]
    /\ diag[2] = [kind |-> "Runtime error", text |-> NotDefined(X).text, name |-> X]
    /\ DOMAIN envs[1].values = {Y}

\* the top-level statements a history has started, in order
RECURSIVE TopLevelStarted(_)
TopLevelStarted(h) ==
    IF h = <<>> THEN <<>>
    ELSE IF h[Len(h)].depth = 1
    THEN Append(TopLevelStarted(SubSeq(h, 1, Len(h) - 1)), h[Len(h)].top)
    ELSE TopLevelStarted(SubSeq(h, 1, Len(h) - 1))

\* C10: interpret executes the statements of its input in order, each exactly
\* once; a runtime error raised by an expression statement, a print, a var, an
\* if or a while never keeps the statements after it from executing: the
\* statements started are always 1, 2, ..., k, a step is possible until
\* interpret has returned, and then k is the length of the input.
C10_InterpretRunsEveryStatement ==
    prog.kind = "failing" =>
        /\ Parsed => Len(statements) = Len(prog.parts)
        /\ pc = "execute" =>
              /\ Running
              /\ \E k \in 0..Len(statements) : TopLevelStarted(trace) = [i \in 1..k |-> i]
        /\ pc = "done" => TopLevelStarted(trace) = [i \in 1..Len(statements) |-> i]

C10_Witness ==
    /\ prog.kind = "failing"
    /\ prog.parts = <<7, 9, 1>>
    /\ pc = "done"
    /\ output = <<<<"1">>>>
    /\ Len(diag) = 2
    /\ TopLevelStarted(trace) = <<1, 2, 3>>

\* the one diagnostic of a print whose expression raised a runtime error
OneRuntimeError == Len(diag) = 1 /\ diag[1].kind = "Runtime error"

\* C11: print a + b;  with a, b Numbers prints their sum, with a, b Strings
\* prints a followed by b, and with every other pair of operand types
\* (String and Number mixed, or a Boolean or Nil operand) reports a runtime
\* error and prints nothing.
C11_PlusSumsOrConcatenates ==
    (prog.kind = "operands" /\ prog.op = "PLUS" /\ pc = "done") =>
        LET l == Operand(prog.a)
            r == Operand(prog.b)
        IN  CASE l.tag = "Number" /\ r.tag = "Number" ->
                    output = <<NatDigits(l.num + r.num)>> /\ diag = <<>>
              [] l.tag = "String" /\ r.tag = "String" ->
                    output = <<l.s \o r.s>> /\ diag = <<>>
              [] OTHER -> output = <<>> /\ OneRuntimeError

C11_Witness ==
    /\ prog = [kind |-> "operands", op |-> "PLUS", a |-> 4, b |-> 5]
    /\ pc = "done"
    /\ output = <<<<"a", "b">>>>

\* C12: print a / b;  with a, b Numbers reports the division-by-zero error
\* and prints nothing when b is zero, and prints the quotient otherwise.
C12_DivisionByZeroIsAnError ==
    (/\ prog.kind = "operands" /\ prog.op = "SLASH" /\ pc = "done"
     /\ Operand(prog.a).tag = "Number" /\ Operand(prog.b).tag = "Number") =>
        LET n == Operand(prog.a).num
            d == Operand(prog.b).num
        IN  IF d = 0
            THEN /\ output = <<>>
                 /\ OneRuntimeError
                 /\ diag[1].text = "Division by zero not allowed."
            ELSE /\ diag = <<>>
                 /\ output = <<IF n % d = 0 THEN NatDigits(n \div d)
                               ELSE <<"0", ".">> \o NatDigits((10 * n) \div d)>>

C12_Witness ==
    /\ prog = [kind |-> "operands", op |-> "SLASH", a |-> 2, b |-> 1]
    /\ pc = "done"
    /\ output = <<>>
    /\ diag = <<[kind |-> "Runtime error", text |-> "Division by zero not allowed.", name |-> <<>>]>>

\* C13: print a == b;  and  print a != b;  never report an error: == prints
\* true exactly when a and b are the same value of the same type, so
\* 1 == "1" prints false, and != prints the opposite.
C13_EqualityNeverFails ==
    (prog.kind = "operands" /\ prog.op \in {"EQUAL_EQUAL", "BANG_EQUAL"} /\ pc = "done") =>
        LET same == prog.a = prog.b
            yes == <<"t", "r", "u", "e">>
            no == <<"f", "a", "l", "s", "e">>
        IN  /\ diag = <<>>
            /\ output = <<IF same = (prog.op = "EQUAL_EQUAL") THEN yes ELSE no>>

C13_Witness ==
    /\ prog = [kind |-> "operands", op |-> "EQUAL_EQUAL", a |-> 2, b |-> 6]
    /\ pc = "done"
    /\ output = <<<<"f", "a", "l", "s", "e">>>>
    /\ diag = <<>>

\* what a line typed at the prompt does to the global variables g and to
\* the lines printed out, going by the meaning of the line
AfterLine(s, k) ==
    LET g == s.g
        hasX == X \in DOMAIN g
        hasY == Y \in DOMAIN g
    IN  CASE k = 1 -> [s EXCEPT !.g = Insert(g, X, Number(1))]
          [] k = 2 -> IF hasX THEN [s EXCEPT !.g = Insert(g, X, Number(2))] ELSE s
          [] k = 3 -> [s EXCEPT !.g = Insert(g, Y, IF hasX THEN g[X] ELSE Nil)]
          [] k = 4 -> IF hasX THEN [s EXCEPT !.out = Append(@, stringify(g[X]))] ELSE s
          [] k = 5 -> IF hasY THEN [s EXCEPT !.out = Append(@, stringify(g[Y]))] ELSE s
          [] k = 6 -> [s EXCEPT !.g = Insert(g, X, String(<<"a">>))]
          [] k \in {7, 8} -> IF hasX THEN [s EXCEPT !.g = Insert(g, X, Number(3))] ELSE s
          [] k = 9 -> IF hasY /\ g[Y] \notin {Nil, Boolean(FALSE)}
                      THEN [s EXCEPT !.g = Insert(g, Y, Nil)] ELSE s

RECURSIVE AfterLines(_)
AfterLines(ls) ==
    IF ls = <<>> THEN [g |-> EmptyMap, out |-> <<>>]
    ELSE AfterLine(AfterLines(SubSeq(ls, 1, Len(ls) - 1)), ls[Len(ls)])

\* C14: in a session of lines handed one after another to the same
\* Interpreter, the global variables at the end of each line, and all through
\* the reading of the next one, are those the lines so far have defined or
\* assigned, each with its latest value, and every print shows that value;
\* before the first line has run no variable is defined.
C14_GlobalsPersistAcrossLines ==
    prog.kind = "repl" =>
        /\ pc # "execute" => environment = 1
        /\ pc \in {"scan", "string", "parse", "interpret"} =>
              LET s == AfterLines(SubSeq(prog.lines, 1, prog.i - 1))
              IN  envs[1].values = s.g /\ output = s.out
        /\ pc = "done" =>
              LET s == AfterLines(SubSeq(prog.lines, 1, prog.i))
              IN  envs[1].values = s.g /\ output = s.out

C14_Witness ==
    /\ prog = [kind |-> "repl", lines |-> <<1, 2, 4>>, i |-> 3]
    /\ pc = "done"
    /\ output = <<<<"2">>>>
    /\ diag = <<>>

\* the frames of the blocks in progress, outermost first
BlockFrames == SelectSeq(stack, LAMBDA fr : fr.f = "block")

\* C15: the environment current when a block is entered is the one current
\* again when the block has executed, whether or not its statements raised
\* runtime errors; blocks in progress are left innermost first, each giving
\* back the environment of the block around it, and with no block in progress
\* the current environment is the global one.
C15_BlockRestoresEnvironment ==
    /\ [](pc \in {"execute", "done"} =>
            /\ BlockFrames = <<>> => environment = 1
            /\ \A j \in 1..Len(BlockFrames) :
                  /\ BlockFrames[j].previous < BlockFrames[j].new_env
                  /\ j > 1 => BlockFrames[j].previous
                                 \in {BlockFrames[j - 1].previous, BlockFrames[j - 1].new_env}
                  /\ j = Len(BlockFrames) =>
                        environment \in {BlockFrames[j].previous, BlockFrames[j].new_env})
    /\ [][/\ (HasNext /\ NextStmt.s = "Block" /\ stack' # stack) =>
                /\ stack'[Len(stack')].f = "block"
                /\ stack'[Len(stack')].previous = environment
          /\ (pc = "execute" /\ stack # <<>> /\ Top.f = "block" /\ stack' # stack
                /\ Len(stack') < Len(stack)) =>
                /\ stack' = Pop(stack)
                /\ environment' = Top.previous]_vars

C15_Witness ==
    /\ prog.kind = "undef" /\ prog.depth = 2 /\ ~prog.pre /\ prog.printed /\ prog.v = 1
    /\ pc = "done"
    /\ environment = 1
    /\ Len(diag) = 2
    /\ Ops(trace) = <<"Block", "Block", "Print", "Print">>

\* the kinds of the tokens scanned
Kinds == [i \in 1..Len(tokens) |-> tokens[i].t]

\* the text has an opening quote and no closing one
Unterminated == Cardinality({i \in 1..Len(src) : src[i] = QUOTE}) = 1

\* no comment can start before the quote: every / of the text comes after it
QuoteFirst == \A i \in 1..Len(src) : src[i] = "/" => \E j \in 1..(i - 1) : src[j] = QUOTE

\* C16: a string literal that reaches the end of input without its closing
\* quote is reported as 'Unterminated string.', gives no STRING token, and the
\* scan then returns with the EOF token: the loop of Scanner::string always
\* has a turn to take that moves the scanner on, and at the return the
\* diagnostic is there and no STRING token is.
C16_UnterminatedStringIsReported ==
    (prog.kind = "text" /\ Unterminated /\ QuoteFirst) =>
        /\ pc = "string" => ENABLED <<StringLoop>>_vars
        /\ pc = "parse" =>
              /\ \E i \in 1..Len(diag) : diag[i].text = "Unterminated string."
              /\ \A i \in 1..Len(tokens) : tokens[i].t # "STRING"
              /\ tokens[Len(tokens)].t = "EOF"

\* the number of newline characters among the first k characters of the text
NewlinesBefore(k) == Cardinality({i \in 1..k : src[i] = NL})

\* C17: on // the scanner discards the characters up to the next newline or
\* the end of input and scans on after that newline: the comment loop always
\* has a turn to take that moves the scanner on, no token comes from inside a
\* comment,  1 // a  newline  2  gives NUMBER 1, NUMBER 2, EOF, and  1 // a
\* gives NUMBER 1, EOF.
C17_LineCommentIsDiscarded ==
    prog.kind = "text" =>
        /\ pc = "line_comment" => ENABLED <<LineCommentLoop>>_vars
        /\ (pc = "parse" /\ src \in {<<"1", " ", "/", "/", " ", "a", NL, "2">>,
                                     <<"1", "/", "/", NL, "2">>}) =>
              /\ Kinds = <<"NUMBER", "NUMBER", "EOF">>
              /\ tokens[1].lexeme = <<"1">> /\ tokens[2].lexeme = <<"2">>
        /\ (pc = "parse" /\ src = <<"1", " ", "/", "/", " ", "a">>) =>
              Kinds = <<"NUMBER", "EOF">>

\* the first two characters of the text open a block comment
OpensBlockComment == Len(src) >= 2 /\ src[1] = "/" /\ src[2] = "*"

\* C18: a block comment ends at the */ that brings the nesting depth back to
\* zero and the character right after it is scanned normally: a comment
\* (plain, holding text, or nested) followed by 1 gives NUMBER 1, EOF; a
\* comment followed by nothing gives EOF alone; and a text that ends inside a
\* block comment gets the diagnostic 'Unterminated block comment'.
C18_BlockCommentEndsAtMatchingClose ==
    (prog.kind = "text" /\ pc = "parse") =>
        /\ src \in {<<"/", "*", "*", "/", "1">>,
                     <<"/", "*", "a", "*", "/", "1">>,
                     <<"/", "*", " ", "a", " ", "/", "*", " ", "b", " ", "*", "/", " ", "c",
                       " ", "*", "/", "1">>} =>
              /\ Kinds = <<"NUMBER", "EOF">>
              /\ tokens[1].lexeme = <<"1">>
              /\ diag = <<>>
        /\ src = <<"/", "*", "*", "/">> => Kinds = <<"EOF">> /\ diag = <<>>
        /\ src \in {<<"/", "*">>, <<"/", "*", "a">>, <<"/", "*", "/", "*">>,
                     <<"/", "*", " ", "a", " ", "/", "*", " ", "b", " ", "*", "/", " ", "c">>} =>
              /\ Kinds = <<"EOF">>
              /\ diag = <<[kind |-> "scan", text |-> "Unterminated block comment", name |-> <<>>]>>

\* C19: every token has the line its first character lies on: when a token
\* other than EOF is added, its line is 1 plus the number of newlines before
\* the offset the token starts at.
C19_TokenLineIsStartLine ==
    [][(prog.kind = "text" /\ Len(tokens') = Len(tokens) + 1
          /\ tokens'[Len(tokens')].t # "EOF") =>
         tokens'[Len(tokens')].line = 1 + NewlinesBefore(start')]_vars

\* the loop a for statement has become: the statement itself, or the second
\* statement of the block that holds its initializer
ForLoop == IF prog.init THEN statements[1].stmts[2] ELSE statements[1]

\* C20: a for clause with its initializer and/or its increment omitted is
\* accepted:  for ([var x = 0]; [x < 1]; [x = x + 1]) print 1;  parses without
\* error, whichever clauses are there, to one statement: a while loop, inside
\* a block after the initializer only when there is one, whose condition is
\* the literal true when the condition is omitted, and whose body is the
\* print alone when there is no increment.
C20_ForClausesMayBeOmitted ==
    prog.kind = "forclause" =>
        /\ pc \notin {"hung", "panicked"}
        /\ ~ParserStuck
        /\ \A i \in 1..Len(diag) : diag[i].kind # "Parsing error"
        /\ Parsed =>
              /\ Len(statements) = 1
              /\ statements[1].s = (IF prog.init THEN "Block" ELSE "While")
              /\ prog.init => /\ Len(statements[1].stmts) = 2
                              /\ statements[1].stmts[1].s = "Var"
              /\ ForLoop.s = "While"
              /\ ForLoop.condition.e = (IF prog.cond THEN "Binary" ELSE "Literal")
              /\ ~prog.cond => ForLoop.condition = Literal(Boolean(TRUE))
              /\ ForLoop.body =
                    (IF prog.incr
                     THEN BlockStmt(<<PrintStmt(Literal(Number(1))), ForLoop.body.stmts[2]>>)
                     ELSE PrintStmt(Literal(Number(1))))
              /\ prog.incr => ForLoop.body.stmts[2].s = "Expr"

\* the malformed statements put inside a block: a stray ), a var without a
\* name, a print without an expression, an expression without its ;
BadInBlock ==
    {<<"RIGHT_PAREN", "SEMICOLON">>, <<"VAR", "SEMICOLON">>, <<"PRINT", "SEMICOLON">>,
     <<"NUMBER">>}

\* the tokens are those of a block holding one malformed statement
BlockWithBadStatement ==
    \E bad \in BadInBlock : Kinds = <<"LEFT_BRACE">> \o bad \o <<"RIGHT_BRACE", "EOF">>

\* C21: a statement that fails to parse inside a block is handled like one at
\* top level: for  { bad }  with bad a malformed statement, parse neither
\* hangs nor aborts, and when it returns a 'Parsing error' diagnostic has been
\* emitted and the block, closed by its }, is the one statement of the result.
C21_BlockRecoversFromBadStatement ==
    (prog.kind = "tokens" /\ BlockWithBadStatement) =>
        /\ pc \notin {"hung", "panicked"}
        /\ ~ParserStuck
        /\ pc = "interpret" =>
              /\ \E i \in 1..Len(diag) : diag[i].kind = "Parsing error"
              /\ statements = <<BlockStmt(<<>>)>>

\* C22: binary operators of one level group to the left and assignment groups
\* to the right.  print 1 op1 2 op2 3;  with op1, op2 of the same level parses
\* as (1 op1 2) op2 3;  print x = y = v;  parses as x = (y = v) and, x and y
\* being defined, prints v and leaves both bound to v.
C22_LeftAssociativeBinaryRightAssociativeAssign ==
    /\ (prog.kind = "bin" /\ Parsed /\ Level(prog.op1) = Level(prog.op2)) =>
          /\ tokens[3].t = prog.op1 /\ tokens[5].t = prog.op2
          /\ Len(statements) = 1
          /\ statements[1].s = "Print"
          /\ statements[1].expr.e = "Binary"
          /\ statements[1].expr.operator = tokens[5]
          /\ statements[1].expr.right = Literal(Number(3))
          /\ statements[1].expr.left.e = "Binary"
          /\ statements[1].expr.left.operator = tokens[3]
          /\ statements[1].expr.left.left = Literal(Number(1))
          /\ statements[1].expr.left.right = Literal(Number(2))
    /\ (prog.kind = "chain" /\ Parsed) =>
          /\ Len(statements) = 3
          /\ statements[3] =
               PrintStmt(Assign(tokens[12], Assign(tokens[14], Literal(Val(prog.v)))))
          /\ tokens[12].lexeme = X /\ tokens[14].lexeme = Y
    /\ (prog.kind = "chain" /\ pc = "done") =>
          /\ envs[1].values = (X :> Val(prog.v)) @@ (Y :> Val(prog.v))
          /\ output = <<stringify(Val(prog.v))>>
          /\ diag = <<>>

C22_Witness ==
    \/ /\ prog.kind = "bin" /\ prog.op1 = "MINUS" /\ prog.op2 = "MINUS"
       /\ pc = "done"
       /\ output = <<<<"-", "4">>>>
    \/ /\ prog.kind = "bin" /\ prog.op1 = "SLASH" /\ prog.op2 = "SLASH"
       /\ pc = "done"
       /\ Len(output) = 1 /\ SubSeq(output[1], 1, 4) = <<"0", ".", "1", "6">>
    \/ /\ prog.kind = "chain" /\ prog.v = 3
       /\ pc = "done"
       /\ output = <<<<"s">>>>

\* environment e followed by its parents, innermost first
RECURSIVE Chain(_, _)
Chain(es, e) == IF e = 0 THEN <<>> ELSE <<e>> \o Chain(es, es[e].parent)

\* the innermost environment on the chain of e that defines name, 0 if none does
Innermost(es, e, name) ==
    LET c == Chain(es, e)
        I == {i \in 1..Len(c) : name \in DOMAIN es[c[i]].values}
    IN  IF I = {} THEN 0 ELSE c[CHOOSE i \in I : \A j \in I : i <= j]

\* the call made by this step
LastCall == trace'[1]

\* C23: a successful assignment  name = v  evaluated in environment e writes v
\* to the binding of name in the innermost environment on the chain of e that
\* defined name, adds no binding and no environment, changes no other binding
\* and no parent link, and has the value v.
C23_AssignChangesOneBinding ==
    [][(prog.kind = "env" /\ trace' # <<>> /\ LastCall.op = "Assign" /\ LastCall.ok) =>
          LET d == Innermost(envs, environment', LastCall.name)
          IN  /\ d # 0
              /\ LastCall.v = LastCall.value
              /\ Len(envs') = Len(envs)
              /\ \A i \in 1..Len(envs) :
                    /\ envs'[i].parent = envs[i].parent
                    /\ DOMAIN envs'[i].values = DOMAIN envs[i].values
                    /\ \A n \in DOMAIN envs[i].values :
                          envs'[i].values[n] =
                             IF i = d /\ n = LastCall.name THEN LastCall.value
                             ELSE envs[i].values[n]]_vars

\* x = 2 evaluated in environment 3, whose parent 2 and grandparent 1 both
\* bind x to 1 while 3 itself does not define x: the binding of 2 is now 2
C23_Witness ==
    /\ prog.kind = "env"
    /\ Len(envs) = 3 /\ envs[3].parent = 2 /\ envs[2].parent = 1
    /\ environment = 3
    /\ trace = Call("Assign", X, Number(2), EvalOk(Number(2), envs))
    /\ DOMAIN envs[3].values = {}
    /\ X \in DOMAIN envs[2].values /\ envs[2].values[X] = Number(2)
    /\ envs[1].values = (X :> Number(1)) @@ (Y :> Number(1))

\* C24: looking a name up in environment e gives the value bound in the
\* innermost environment on the chain of e that defines it, and fails with
\* 'Variable not defined' exactly when no environment on that chain defines
\* it, whatever the environments off the chain hold; it changes nothing.
C24_GetFindsInnermostOnChain ==
    [][(prog.kind = "env" /\ trace' # <<>> /\ LastCall.op = "Variable") =>
          LET d == Innermost(envs, environment', LastCall.name)
          IN  /\ envs' = envs
              /\ LastCall.ok <=> d # 0
              /\ d # 0 => LastCall.v = envs[d].values[LastCall.name]
              /\ d = 0 => LastCall.v = NotDefined(LastCall.name)]_vars

\* x looked up in environment 2, which does not define it: the value is the 1
\* bound in its parent 1, not the 2 bound in its sibling 3
C24_Witness ==
    /\ prog.kind = "env"
    /\ Len(envs) = 3 /\ envs[2].parent = 1 /\ envs[3].parent = 1
    /\ environment = 2
    /\ DOMAIN envs[2].values = {}
    /\ envs[1].values = (X :> Number(1))
    /\ envs[3].values = (X :> Number(2))
    /\ trace = Call("Variable", X, Nil, EvalOk(Number(1), envs))

\* C25:  [var x = a;] var x [= e]; print x;  where e is absent or raises a
\* runtime error: the var emits no diagnostic and leaves x bound to Nil as the
\* one binding of the global environment, replacing the a of an earlier
\* var x = a;  and the print then prints nil.
C25_VarDefaultsToNil ==
    prog.kind = "vardecl" =>
        /\ diag = <<>>
        /\ Parsed => Len(statements) = (IF prog.pre = 0 THEN 2 ELSE 3)
        /\ pc = "execute" =>
              /\ Running
              /\ (trace # <<>> /\ trace[Len(trace)].op = "Var" /\ Len(trace) = 1 /\ prog.pre # 0)
                    => envs = <<[values |-> (X :> Val(prog.pre)), parent |-> 0]>>
              /\ (trace # <<>> /\ trace[Len(trace)].op = "Var"
                    /\ Len(trace) = (IF prog.pre = 0 THEN 1 ELSE 2))
                    => envs = <<[values |-> (X :> Nil), parent |-> 0]>>
        /\ pc = "done" =>
              /\ Ops(trace) = (IF prog.pre = 0 THEN <<>> ELSE <<"Var">>) \o <<"Var", "Print">>
              /\ envs = <<[values |-> (X :> Nil), parent |-> 0]>>
              /\ output = <<<<"n", "i", "l">>>>

\* var x = 1; var x = 1/0; print x;  has printed nil
C25_Witness ==
    /\ prog.kind = "vardecl" /\ prog.pre = 1 /\ prog.init = 2
    /\ pc = "done"
    /\ Ops(trace) = <<"Var", "Var", "Print">>
    /\ envs[1].values[X] = Nil
    /\ output = <<<<"n", "i", "l">>>>
    /\ diag = <<>>

\* the steps of the loop whose condition is truthy n times: the var, the
\* entry, then n times condition and body, the condition that ends the loop
\* and the print after it
RECURSIVE WhileSteps(_)
WhileSteps(n) ==
    IF n = 0 THEN <<"Var", "While">> ELSE WhileSteps(n - 1) \o <<"cond", "Print">>

\* C26:  var x = 0; while (c) print x = x + 1; print x;  where c is truthy at
\* its first n evaluations and at the next one is falsy or raises a runtime
\* error: the body runs once after each truthy evaluation and not after the
\* last one, no diagnostic is emitted, and the print after the loop runs.
C26_WhileRunsBodyPerTruthyCondition ==
    prog.kind = "while" =>
        LET expected == WhileSteps(prog.n) \o <<"cond", "Print">>
        IN  /\ diag = <<>>
            /\ Parsed => /\ Len(statements) = 3
                         /\ statements[2].s = "While"
                         /\ statements[2].body.s = "Print"
            /\ pc = "execute" => Running /\ IsPrefix(Ops(trace), expected)
            /\ pc = "done" =>
                  /\ Ops(trace) = expected
                  /\ output = [i \in 1..(prog.n + 1) |->
                                  NatDigits(IF i <= prog.n THEN i ELSE prog.n)]

\* the loop on 1 / (2 - x) has run its body twice, ended on the division by
\* zero and gone on to the print
C26_Witness ==
    /\ prog.kind = "while" /\ prog.n = 2 /\ prog.err
    /\ pc = "done"
    /\ Ops(trace) = <<"Var", "While", "cond", "Print", "cond", "Print", "cond", "Print">>
    /\ output = <<<<"1">>, <<"2">>, <<"2">>>>
    /\ diag = <<>>

\* Nil and Boolean false
Falsy(v) == v.tag = "Nil" \/ (v.tag = "Boolean" /\ ~v.b)

\* C27: Nil and false are falsy and every other value, Number 0 and the empty
\* String included, is truthy, for if, while and ! alike:
\* if (v) print 1; else print 2;  prints 2 iff v is falsy;
\* var x = v; while (x) print x = nil;  prints nothing iff v is falsy and
\* nil, once, otherwise;  print !v;  prints true iff v is falsy, false otherwise.
C27_OnlyNilAndFalseAreFalsy ==
    prog.kind = "truthy" =>
        LET falsy == Falsy(TruthVal(prog.v))
        IN  /\ diag = <<>>
            /\ pc = "execute" => Running
            /\ pc = "done" =>
                  CASE prog.form = "if" ->
                          /\ Ops(trace) = <<"If", "Print">>
                          /\ output = <<IF falsy THEN <<"2">> ELSE <<"1">>>>
                    [] prog.form = "while" ->
                          /\ Ops(trace) = IF falsy THEN <<"Var", "While", "cond">>
                                          ELSE <<"Var", "While", "cond", "Print", "cond">>
                          /\ output = IF falsy THEN <<>> ELSE <<K_nil>>
                    [] prog.form = "bang" ->
                          output = <<IF falsy THEN K_true ELSE K_false>>

\* if (0) print 1; else print 2;  has printed 1
C27_Witness ==
    /\ prog.kind = "truthy" /\ prog.form = "if" /\ prog.v = 4
    /\ pc = "done"
    /\ statements[1].condition = Literal(Number(0))
    /\ output = <<<<"1">>>>

====
